---- MODULE Spec2Model ----
(***************************************************************************)
(* A state-machine model of SkyTemple's main window controller             *)
(* (skytemple/controller/main.py), of the dungeon interruption editor      *)
(* (skytemple/module/lists/controller/dungeon_interrupt.py) and of the     *)
(* monster sprite view (skytemple/module/sprite/controller/                *)
(* monster_sprite.py).                                                     *)
(*                                                                         *)
(* The specifications share the module's variables:                        *)
(*   SpecView    view switching: load_view / reload_view / on_view_loaded  *)
(*   SpecFilter  the item tree's search filter                             *)
(*   SpecFile    opening and saving a ROM                                  *)
(*   SpecInter   the dungeon interruption editor                           *)
(*   SpecGeom    saving the window geometry after configure events         *)
(*   SpecSprite  the sprite preview's redraw timer                         *)
(* Each one moves its own part of the state and leaves the rest alone.     *)
(***************************************************************************)
EXTENDS Integers, Sequences, FiniteSets, TLC

VARIABLES
    \* ---- view switching (MainController) ----
    current_view_module,            \* _current_view_module ("None" or a module)
    current_view_controller_class,  \* _current_view_controller_class
    current_view_item_id,           \* _current_view_item_id (NoItem for None)
    current_view,                   \* _current_view: 0 (None) or the request whose view it is
    stack_loaded,                   \* editor stack child "es__loaded_view": 0 or a request
    visible_child,                  \* the editor stack's visible page
    tree_locked,                    \* main item list insensitive (_lock_trees)
    reqs,                           \* every load task handed to AsyncTaskDelegator, in order
    pending,                        \* the tasks that have not completed yet
    destroyed,                      \* views whose widget was destroyed
    unloaded,                       \* controllers whose unload() was called
    view_switch_events,             \* views announced with EVT_VIEW_SWITCH
    error_text,                     \* es_error_text_buffer: 0 or the failing request
    view_load_sentry_event_id,      \* _view_load_sentry_event_id
    report_button_shown,            \* button_report visible
    \* ---- item tree and search filter ----
    n_rows,                         \* number of rows of item_store (pre-order numbered)
    row_parent,                     \* row -> parent row (0: top level)
    row_text,                       \* row -> column 1
    row_visible,                    \* row -> COL_VISIBLE
    row_expanded,                   \* rows expanded in main_item_list
    search_input,                   \* the text of the search entry
    search_text,                    \* _search_text (NoText before the first search)
    \* ---- opening and saving ----
    project,                        \* RomProject.get_current(): "None" or a file name
    modified,                       \* rom.has_modifications()
    loading_dialog,                 \* _loading_dialog: "None" or "file_opening_dialog"
    dialog_visible,                 \* file_opening_dialog is shown
    in_flight,                      \* the RomProject operation awaiting its callback
    after_save_action,              \* _after_save_action
    window_destroyed,               \* self._window.destroy() was called
    title_modified,                 \* the window title carries the '*'
    tree_marked_modified,           \* some tree entry is marked as modified
    error_dialogs,                  \* titles of the error dialogs shown, in order
    assistant_visible,              \* the intro assistant is shown
    assistant_shown_setting,        \* settings.get_assistant_shown()
    tree_items_loaded,              \* how far on_file_opened got in filling the tree
    recent_files,                   \* self.recent_files
    settings_recent_files,          \* the recent files in the settings store
    \* ---- dungeon interruption editor ----
    list_dungeons,                  \* inter_d.list_dungeons
    interrupt_store,                \* the rows of interrupt_store
    cb_dungeon,                     \* cb_dungeon's active row (0: none)
    interrupts_modified,            \* mark_dungeon_interrupts_as_modified() was called
    interrupt_edits,                \* handler runs that wrote to interrupt_store
    overflow_dialog_shown,          \* the last handler ended in catch_overflow's error dialog
    \* ---- window geometry ----
    resize_timeout_id,              \* _resize_timeout_id (0 for None)
    glib_timeouts,                  \* pending GLib sources of the resize handler
    source_count,                   \* source ids GLib has handed out
    window,                         \* the window's position, size, maximized state
    settings_window,                \* position, size, maximized in the settings store
    geometry_writes,                \* runs of the resize handler
    \* ---- sprite preview (MonsterSpriteController) ----
    drawing_is_active,              \* _drawing_is_active
    draw_area,                      \* _draw_area: "None", "attached", "detached", "destroyed"
    tick_timers,                    \* pending GLib timeouts of _tick
    frame_counter,                  \* _frame_counter
    redraw_queued,                  \* queue_draw() was called and the draw has not run
    window_has_focus,               \* EventManager's main-window focus flag
    sprite_version,                 \* monster/ground/attack sprite: the import that saved it
    imports_started,                \* folder dialogs of on_import_clicked that were accepted
    item_marked_modified,           \* _mark_as_modified_cb() was called
    view_reloads,                   \* calls of MainController.reload_view() by the view
    sprite_dialogs,                 \* titles of the result dialogs shown, in order
    \* ---- update check at startup (MainController.__init__) ----
    running_version,                \* release of version(), the running SkyTemple
    newest_release,                 \* what check_newest_release did: returned a string or raised
    update_info_visible,            \* the box "update_info" is shown
    update_new_version,             \* text of the label "update_new_version"
    startup_step,                   \* the call of __init__ that runs next
    \* ---- history ----
    last                            \* the handler that ran last and how it ended

viewVars == <<current_view_module, current_view_controller_class, current_view_item_id,
              current_view, stack_loaded, visible_child, tree_locked, reqs, pending,
              destroyed, unloaded, view_switch_events, error_text,
              view_load_sentry_event_id, report_button_shown>>

filterVars == <<n_rows, row_parent, row_text, row_visible, row_expanded, search_input,
                search_text>>

fileVars == <<project, modified, loading_dialog, dialog_visible, in_flight,
              after_save_action, window_destroyed, title_modified, tree_marked_modified,
              error_dialogs, assistant_visible, assistant_shown_setting,
              tree_items_loaded, recent_files, settings_recent_files>>

interVars == <<list_dungeons, interrupt_store, cb_dungeon, interrupts_modified,
               interrupt_edits, overflow_dialog_shown>>

geomVars == <<resize_timeout_id, glib_timeouts, source_count, window, settings_window,
              geometry_writes>>

importVars == <<sprite_version, imports_started, item_marked_modified, view_reloads,
                sprite_dialogs>>

spriteVars == <<drawing_is_active, draw_area, tick_timers, frame_counter, redraw_queued,
                window_has_focus, importVars>>

updateVars == <<running_version, newest_release, update_info_visible, update_new_version,
                startup_step>>

vars == <<viewVars, filterVars, fileVars, interVars, geomVars, spriteVars, updateVars, last>>

(***************************************************************************)
(* Bounds of the model.                                                    *)
(***************************************************************************)
MaxRequests == 3   \* load tasks started in one behaviour
MaxRows == 4       \* rows of the item tree
MaxEntries == 2    \* rows of interrupt_store
MaxEdits == 2      \* handler runs that write to interrupt_store in one behaviour
MaxErrors == 2     \* error dialogs shown in one behaviour
MaxConfigureEvents == 3   \* configure events in one behaviour
MaxRecent == 3     \* length of the recent-files list found in the settings
MaxTicks == 3      \* ticks of the sprite preview that count a frame
MaxVersionPart == 2 \* largest number in a part of a release
MaxImports == 3    \* spritesheet imports started in one behaviour

NoItem == -1

(***************************************************************************)
(* VIEW SWITCHING                                                          *)
(***************************************************************************)

\* The rows a view can be requested for: columns 2, 3 and 4 of the item store
\* (module, controller class, item id).  "StPage" stands for a view class
\* that is itself a Gtk.Widget, "Ctrl" for an AbstractController.
Modules == {"m1", "m2"}
Classes == {"Ctrl", "StPage"}
Items == { [module |-> "m1", cls |-> "Ctrl",   item |-> 0],
           [module |-> "m1", cls |-> "Ctrl",   item |-> 1],
           [module |-> "m2", cls |-> "Ctrl",   item |-> 0],
           [module |-> "m1", cls |-> "StPage", item |-> 0] }

\* isinstance(in_view, Gtk.Widget)
IsWidget(cls) == cls = "StPage"

\* What capture_error can return: None, or an event id (a string).
SentryIds == {"None", "evt"}

ViewIdle ==
    /\ current_view_module = "None"
    /\ current_view_controller_class = "None"
    /\ current_view_item_id = NoItem
    /\ current_view = 0
    /\ stack_loaded = 0
    /\ visible_child = "es_start"
    /\ tree_locked = FALSE
    /\ reqs = <<>>
    /\ pending = {}
    /\ destroyed = {}
    /\ unloaded = {}
    /\ view_switch_events = {}
    /\ error_text = 0
    /\ view_load_sentry_event_id = "None"
    /\ report_button_shown = FALSE

\* _init_window_before_view_load: the title gets its '*' when the project
\* has modifications.
InitWindowBeforeViewLoad ==
    IF project # "None" /\ modified THEN TRUE ELSE title_modified

\* AsyncTaskDelegator.run_task(load_view(module, cls, item_id, self))
RunTask(module, cls, item, kind) ==
    /\ reqs' = Append(reqs, [module |-> module, cls |-> cls, item |-> item, kind |-> kind])
    /\ pending' = pending \cup {Len(reqs) + 1}

\* MainController.load_view(model, treeiter, tree), but for the window title
LoadViewCore(it) ==
    /\ tree_locked' = TRUE
    /\ visible_child' = "es_loading"
    /\ current_view_module' = it.module
    /\ current_view_controller_class' = it.cls
    /\ current_view_item_id' = it.item
    /\ RunTask(it.module, it.cls, it.item, "load_view")
    /\ UNCHANGED <<current_view, stack_loaded, destroyed, unloaded, view_switch_events,
                   error_text, view_load_sentry_event_id, report_button_shown>>

\* MainController.load_view(model, treeiter, tree)
LoadViewBody(it) ==
    /\ LoadViewCore(it)
    /\ title_modified' = InitWindowBeforeViewLoad

\* load_view as the handler of a selection in the item tree
LoadView(it) ==
    /\ Len(reqs) < MaxRequests
    /\ LoadViewBody(it)
    /\ last' = [op |-> "load_view", id |-> Len(reqs) + 1, outcome |-> "requested"]
    /\ UNCHANGED <<filterVars, interVars, geomVars, spriteVars, updateVars>>
    /\ UNCHANGED <<project, modified, loading_dialog, dialog_visible, in_flight,
                   after_save_action, window_destroyed, tree_marked_modified,
                   error_dialogs, assistant_visible, assistant_shown_setting,
                   tree_items_loaded, recent_files, settings_recent_files>>

\* MainController.reload_view(): the task is built from the class of the
\* presented view, not from _current_view_controller_class; assert_not_none
\* raises, after the tree was locked, when no view was presented yet.
ReloadView ==
    /\ Len(reqs) < MaxRequests
    /\ tree_locked' = TRUE
    /\ visible_child' = "es_loading"
    /\ IF current_view = 0
         THEN /\ UNCHANGED <<reqs, pending>>
              /\ last' = [op |-> "reload_view", id |-> 0, outcome |-> "raised"]
         ELSE /\ RunTask(current_view_module, reqs[current_view].cls,
                         current_view_item_id, "reload_view")
              /\ last' = [op |-> "reload_view", id |-> Len(reqs) + 1, outcome |-> "requested"]
    /\ UNCHANGED <<current_view_module, current_view_controller_class,
                   current_view_item_id, current_view, stack_loaded, destroyed, unloaded,
                   view_switch_events, error_text, view_load_sentry_event_id,
                   report_button_shown>>
    /\ UNCHANGED <<filterVars, fileVars, interVars, geomVars, spriteVars, updateVars>>

\* Mutants of the match test: no test at all, and a test that forgets the item id.
ViewMatches_Always(r) == TRUE

ViewMatches_NoItemId(r) ==
    /\ current_view_module = r.module
    /\ current_view_controller_class = r.cls

\* on_view_loaded's test "loaded view still matches the selection"
ViewMatches(r) ==
    /\ current_view_module = r.module
    /\ current_view_controller_class = r.cls
    /\ current_view_item_id = r.item

\* Mutant: the report button is shown whatever capture_error returned.
ViewLoadedErrorEffects_AlwaysReport(id, sid) ==
    /\ error_text' = id
    /\ view_load_sentry_event_id' = sid
    /\ visible_child' = "es_error"
    /\ report_button_shown' = TRUE
    /\ tree_locked' = FALSE

\* on_view_loaded_error(ex): the traceback, capture_error, the error page,
\* the report button, the unlock.
ViewLoadedErrorEffects(id, sid) ==
    /\ error_text' = id
    /\ view_load_sentry_event_id' = sid
    /\ visible_child' = "es_error"
    /\ report_button_shown' = (sid # "None")
    /\ tree_locked' = FALSE

\* on_view_loaded, get_view() raised
GetViewRaised(id, sid) ==
    /\ ViewLoadedErrorEffects(id, sid)
    /\ stack_loaded' = 0
    /\ destroyed' = IF stack_loaded # 0 THEN destroyed \cup {stack_loaded} ELSE destroyed
    /\ unloaded' = unloaded
                    \cup (IF current_view # 0 /\ ~IsWidget(reqs[current_view].cls)
                          THEN {current_view} ELSE {})
                    \cup {id}
    /\ UNCHANGED <<current_view, view_switch_events>>

\* Mutant: the stale branch also unlocks the tree, as the other branches do.
DiscardStale_Unlocks(id) ==
    /\ destroyed' = destroyed \cup {id}
    /\ tree_locked' = FALSE
    /\ UNCHANGED <<current_view, stack_loaded, visible_child, unloaded,
                   view_switch_events, error_text, view_load_sentry_event_id,
                   report_button_shown>>

\* on_view_loaded, the loaded view does not match the selection
DiscardStale(id) ==
    /\ destroyed' = destroyed \cup {id}
    /\ UNCHANGED <<current_view, stack_loaded, visible_child, tree_locked, unloaded,
                   view_switch_events, error_text, view_load_sentry_event_id,
                   report_button_shown>>

\* on_view_loaded, the loaded view is presented
PresentView(id) ==
    /\ destroyed' = IF stack_loaded # 0 THEN destroyed \cup {stack_loaded} ELSE destroyed
    /\ unloaded' = IF current_view # 0 /\ ~IsWidget(reqs[current_view].cls)
                    THEN unloaded \cup {current_view} ELSE unloaded
    /\ current_view' = id
    /\ stack_loaded' = id
    /\ visible_child' = "es__loaded_view"
    /\ tree_locked' = FALSE
    /\ view_switch_events' = view_switch_events \cup {id}
    /\ UNCHANGED <<error_text, view_load_sentry_event_id, report_button_shown>>

\* on_view_loaded(module, in_view, item_id), the completion of task id.
OnViewLoaded(id, raises, sid) ==
    /\ id \in pending
    /\ pending' = pending \ {id}
    /\ IF raises /\ ~IsWidget(reqs[id].cls)
         THEN /\ GetViewRaised(id, sid)
              /\ last' = [op |-> "on_view_loaded", id |-> id, outcome |-> "get_view_raised"]
         ELSE IF ~ViewMatches(reqs[id])
         THEN /\ DiscardStale(id)
              /\ last' = [op |-> "on_view_loaded", id |-> id, outcome |-> "stale"]
         ELSE /\ PresentView(id)
              /\ last' = [op |-> "on_view_loaded", id |-> id, outcome |-> "presented"]
    /\ UNCHANGED <<current_view_module, current_view_controller_class,
                   current_view_item_id, reqs>>
    /\ UNCHANGED <<filterVars, fileVars, interVars, geomVars, spriteVars, updateVars>>

\* on_view_loaded_error(ex), the completion of a task that failed.
OnViewLoadedError(id, sid) ==
    /\ id \in pending
    /\ pending' = pending \ {id}
    /\ ViewLoadedErrorEffects(id, sid)
    /\ last' = [op |-> "on_view_loaded_error", id |-> id, outcome |-> "error"]
    /\ UNCHANGED <<current_view_module, current_view_controller_class,
                   current_view_item_id, current_view, stack_loaded, reqs, destroyed,
                   unloaded, view_switch_events>>
    /\ UNCHANGED <<filterVars, fileVars, interVars, geomVars, spriteVars, updateVars>>

(***************************************************************************)
(* THE ITEM TREE'S SEARCH FILTER                                           *)
(*                                                                         *)
(* Texts are sequences of one-character strings.  The rows of item_store   *)
(* are numbered in the store's pre-order, the order of TreeModel.foreach;  *)
(* row_parent[r] = 0 for a top-level row.                                  *)
(***************************************************************************)

\* _search_text = None
NoText == <<"None">>

\* str.lower() on one character
Lower(c) ==
    CASE c = "A" -> "a"
      [] c = "B" -> "b"
      [] c = "C" -> "c"
      [] OTHER -> c

\* str.lower()
LowerStr(s) == [i \in 1..Len(s) |-> Lower(s[i])]

IsSpace(c) == c \in {" ", "\t"}

RECURSIVE LStrip(_)
LStrip(s) == IF s # <<>> /\ IsSpace(Head(s)) THEN LStrip(Tail(s)) ELSE s

RECURSIVE RStrip(_)
RStrip(s) ==
    IF s # <<>> /\ IsSpace(s[Len(s)]) THEN RStrip(SubSeq(s, 1, Len(s) - 1)) ELSE s

\* Mutant: the search text is taken as typed.
Strip_Missing(s) == s

\* str.strip()
Strip(s) == RStrip(LStrip(s))

\* Python's "q in t" on strings
Contains(q, t) ==
    \E i \in 0..(Len(t) - Len(q)) : SubSeq(t, i + 1, i + Len(q)) = q

Rows == 1..n_rows

\* The children of row r (of the root for r = 0), in store order.
RECURSIVE ChildrenFrom(_, _)
ChildrenFrom(r, i) ==
    IF i > n_rows THEN <<>>
    ELSE IF row_parent[i] = r THEN <<i>> \o ChildrenFrom(r, i + 1)
    ELSE ChildrenFrom(r, i + 1)

Children(r) == ChildrenFrom(r, 1)

\* Mutant: only the row itself is made visible.
MakePathVisible_RowOnly(vis, r) == [vis EXCEPT ![r] = TRUE]

\* _filter__make_path_visible(model, iter)
RECURSIVE MakePathVisible(_, _)
MakePathVisible(vis, r) ==
    IF r = 0 THEN vis ELSE MakePathVisible([vis EXCEPT ![r] = TRUE], row_parent[r])

\* Mutant: the children are made visible, their subtrees are not visited.
RECURSIVE ChildrenVisibleFrom(_, _)
ChildrenVisibleFrom(vis, kids) ==
    IF kids = <<>> THEN vis
    ELSE ChildrenVisibleFrom([vis EXCEPT ![Head(kids)] = TRUE], Tail(kids))

MakeSubtreeVisible_NoRecursion(vis, r) == ChildrenVisibleFrom(vis, Children(r))

\* _filter__make_subtree_visible(model, iter): a child that is already
\* visible is skipped together with its subtree.
RECURSIVE MakeSubtreeVisible(_, _)
RECURSIVE SubtreesVisibleFrom(_, _)
SubtreesVisibleFrom(vis, kids) ==
    IF kids = <<>> THEN vis
    ELSE LET c == Head(kids)
         IN  IF vis[c]
             THEN SubtreesVisibleFrom(vis, Tail(kids))
             ELSE SubtreesVisibleFrom(
                      MakeSubtreeVisible([vis EXCEPT ![c] = TRUE], c), Tail(kids))

MakeSubtreeVisible(vis, r) == SubtreesVisibleFrom(vis, Children(r))

\* _filter__show_matches(model, path, iter) for one row, _search_text = st
ShowMatches(vis, r, st) ==
    IF Contains(LowerStr(st), LowerStr(row_text[r]))
    THEN MakeSubtreeVisible(MakePathVisible(vis, r), r)
    ELSE vis

\* item_store.foreach(_filter__show_matches): rows r..n_rows in pre-order;
\* the callback returns True, which ends the walk, when _search_text is None.
RECURSIVE ForeachShowMatches(_, _, _)
ForeachShowMatches(vis, r, st) ==
    IF r > n_rows \/ st = NoText THEN vis
    ELSE ForeachShowMatches(ShowMatches(vis, r, st), r + 1, st)

\* item_store.foreach(_filter__reset_row, make_visible)
ResetRows(make_visible) == [r \in Rows |-> make_visible]

\* expand_to_path(path): the row and the rows above it
RECURSIVE PathTo(_)
PathTo(r) == IF r = 0 THEN {} ELSE {r} \cup PathTo(row_parent[r])

\* collapse_all(), then main_item_filter.foreach(_filter__expand_all_visible):
\* the filter model holds the rows whose ancestors and themselves are visible.
ExpandAllVisible(vis, st) ==
    IF st = NoText THEN {}
    ELSE UNION { PathTo(r) : r \in { x \in Rows :
                     /\ \A a \in PathTo(x) : vis[a]
                     /\ Contains(LowerStr(st), LowerStr(row_text[x])) } }

\* _filter__refresh_results: the new COL_VISIBLE column
RefreshResults(st) ==
    IF st = <<>> THEN ResetRows(TRUE)
    ELSE ForeachShowMatches(ResetRows(FALSE), 1, st)

\* on_main_item_list_search_search_changed(search)
OnSearchChanged(input) ==
    LET st == Strip(input)
        vis == RefreshResults(st)
    IN  /\ search_input' = input
        /\ search_text' = st
        /\ row_visible' = vis
        /\ row_expanded' = IF st = <<>> THEN row_expanded ELSE ExpandAllVisible(vis, st)
        /\ last' = [op |-> "search_changed", id |-> 0,
                    outcome |-> IF st = <<>> THEN "reset" ELSE "filtered"]
        /\ UNCHANGED <<n_rows, row_parent, row_text>>
        /\ UNCHANGED <<viewVars, fileVars, interVars, geomVars, spriteVars, updateVars>>

\* The texts of the rows and the texts typed into the search entry.
RowTexts == {<<"a">>, <<"A", "b">>}
SearchInputs == {<<>>, <<" ", "\t">>, <<"A">>, <<" ", "a", "B">>, <<"b", " ">>, <<"z">>}

\* Gtk.TreeStore in pre-order: a row comes after its parent, and the rows
\* between a parent and its child belong to the parent's subtree.
IsPreorderForest(par) ==
    \A i \in DOMAIN par :
        /\ par[i] < i
        /\ \A j \in (par[i] + 1)..(i - 1) : par[j] >= par[i]

(***************************************************************************)
(* OPENING AND SAVING A ROM                                                *)
(*                                                                         *)
(* RomProject.open and rom.save run in the background and report through   *)
(* on_file_opened / on_file_opened_error and on_file_saved /               *)
(* on_file_saved_error.  The handler that started them sits in             *)
(* _loading_dialog.run() meanwhile, a modal dialog: in_flight holds the one *)
(* operation that is running and what its starter does once run() returns. *)
(***************************************************************************)
Files == {"a.nds", "b.nds"}

\* No RomProject operation is running.
NoOperation == [kind |-> "none", fn |-> "", action |-> "None", then |-> ""]

\* The responses of _show_are_you_sure: Don't Save, Save, Cancel
\* (Gtk.ResponseType.CANCEL).
Responses == {0, 1, -6}

\* The root node's view: the ROM module's main page.
RootItem == [module |-> "m1", cls |-> "StPage", item |-> 0]

\* The steps of on_file_opened's try block, in order.
OpenSteps == <<"load_rom_data", "init_patch_properties", "rom_load_tree_items",
               "handle_project_change", "module_load_tree_items", "finalize",
               "trigger_project_open", "select_path">>

StepIndex(step) == CHOOSE i \in 1..Len(OpenSteps) : OpenSteps[i] = step

\* What the item store holds when on_file_opened stops at a step ("none":
\* it ran through): _init_window_after_rom_load cleared it, then the ROM
\* module and the other modules added their rows, then finalize().
TreeItemsAfter(fail_at) ==
    IF fail_at = "none" THEN "finalized"
    ELSE IF StepIndex(fail_at) <= StepIndex("rom_load_tree_items") THEN "cleared"
    ELSE IF StepIndex(fail_at) <= StepIndex("module_load_tree_items") THEN "partial"
    ELSE IF StepIndex(fail_at) = StepIndex("finalize") THEN "loaded"
    ELSE "finalized"

\* Mutant: only fn itself is dropped from the old list.
WithoutDuplicates_OnlyFn(rf, fn) == SelectSeq(rf, LAMBDA x : x # fn)

RECURSIVE WithoutDuplicates(_, _)
WithoutDuplicates(rf, fn) ==
    IF rf = <<>> THEN <<>>
    ELSE LET init == WithoutDuplicates(SubSeq(rf, 1, Len(rf) - 1), fn)
             x == rf[Len(rf)]
         IN  IF x # fn /\ \A i \in 1..Len(init) : init[i] # x
             THEN Append(init, x) ELSE init

\* _update_recent_files(fn): the new list
UpdateRecentFiles(rf, fn) == <<fn>> \o WithoutDuplicates(rf, fn)

\* "if self._loading_dialog is not None: hide(); self._loading_dialog = None"
HideLoadingDialog ==
    /\ dialog_visible' = IF loading_dialog # "None" THEN FALSE ELSE dialog_visible
    /\ loading_dialog' = "None"

\* Mutant: the dialog is hidden but the reference is kept.
OnFileOpenedErrorEffects_KeepsDialog ==
    /\ dialog_visible' = FALSE
    /\ loading_dialog' = loading_dialog
    /\ error_dialogs' = Append(error_dialogs, "Error opening the ROM")

\* on_file_opened_error(exc_info, exception)
OnFileOpenedErrorEffects ==
    /\ HideLoadingDialog
    /\ error_dialogs' = Append(error_dialogs, "Error opening the ROM")

\* Mutant: the failed save runs the after-save action all the same.
OnFileSavedErrorEffects_RunsAction ==
    /\ HideLoadingDialog
    /\ error_dialogs' = Append(error_dialogs, "Error saving the ROM")
    /\ window_destroyed' = (window_destroyed \/ after_save_action = "destroy")
    /\ UNCHANGED <<title_modified, tree_marked_modified, after_save_action, project,
                   modified>>

\* on_file_saved_error(exc_info, exception)
OnFileSavedErrorEffects ==
    /\ HideLoadingDialog
    /\ error_dialogs' = Append(error_dialogs, "Error saving the ROM")
    /\ UNCHANGED <<title_modified, tree_marked_modified, after_save_action, project,
                   modified, window_destroyed>>

\* _save(force, after_save_action) starts a save
SaveStarts(force) == project # "None" /\ (modified \/ force)

\* _open_file(filename) on a file the check lets through:
\* the dialog, RomProject.open, the recent files, run()
OpenFileStarts(fn) ==
    /\ loading_dialog' = "file_opening_dialog"
    /\ dialog_visible' = TRUE
    /\ in_flight' = [kind |-> "open", fn |-> fn, action |-> "None", then |-> ""]
    /\ recent_files' = UpdateRecentFiles(recent_files, fn)
    /\ settings_recent_files' = UpdateRecentFiles(recent_files, fn)

\* Mutant: _save stores an after-save action only when it is given one.
SaveBody_KeepsOldAction(action, then) ==
    /\ after_save_action' = IF action = "None" THEN after_save_action ELSE action
    /\ loading_dialog' = "file_opening_dialog"
    /\ dialog_visible' = TRUE
    /\ in_flight' = [kind |-> "save", fn |-> "", action |-> action, then |-> then]

\* Mutant: _save stores the action only when none is stored.
SaveBody_KeepsStoredAction(action, then) ==
    /\ after_save_action' = IF after_save_action = "None" THEN action
                            ELSE after_save_action
    /\ loading_dialog' = "file_opening_dialog"
    /\ dialog_visible' = TRUE
    /\ in_flight' = [kind |-> "save", fn |-> "", action |-> action, then |-> then]

\* _save(...) when it starts a save: the action, the dialog, rom.save, run().
\* in_flight keeps the call's after_save_action argument and what the caller
\* does once run() returns.
SaveBody(action, then) ==
    /\ after_save_action' = action
    /\ loading_dialog' = "file_opening_dialog"
    /\ dialog_visible' = TRUE
    /\ in_flight' = [kind |-> "save", fn |-> "", action |-> action, then |-> then]

\* rom.save reported and the loading dialog's run() returns: the save is
\* over, unless its starter has something left to do (then: the file name
\* Save As passes to _update_recent_files, "" for the other starters).
AfterSave(op) ==
    IF op.then = "" THEN NoOperation
    ELSE [kind |-> "returned", fn |-> op.fn, action |-> "None", then |-> op.then]

\* The user may act: no modal loading dialog is running, the window exists.
UserCanAct == in_flight = NoOperation /\ ~window_destroyed

\* _show_are_you_sure runs only when the debugger agreed and the project has
\* modifications; there is no response otherwise (0 stands for it).
AskedToSave(debugger_ok) == debugger_ok /\ project # "None" /\ modified

\* What a handler was answered, kept in last.id: the user's response when
\* the debugger agreed, 2 when the debugger refused.
Answer(debugger_ok, response) == IF debugger_ok THEN response ELSE 2

\* Mutant: Cancel in the 'save changes?' dialog lets the file be opened.
CheckOpenFile_CancelOpens(check_save, response) ==
    IF ~check_save THEN "cancel"
    ELSE IF project # "None" /\ modified /\ response = 1 THEN "save"
    ELSE "open"

\* _check_open_file(filename): "open" for True; "save" when it started a
\* save whose after-save action opens the file (_save returns None, so the
\* caller does not open now); "cancel" for False.
CheckOpenFile(check_save, response) ==
    IF ~check_save THEN "cancel"
    ELSE IF project # "None" /\ modified
         THEN IF response = 0 THEN "open"
              ELSE IF response = 1 THEN "save"
              ELSE "cancel"
    ELSE "open"

\* _open_file(filename), from the recent list or the file chooser.
\* check_save: the debugger's answer; response: the user's, when asked.
OpenFile(fn, check_save, response) ==
    /\ UserCanAct
    /\ ~AskedToSave(check_save) => response = 0
    /\ IF CheckOpenFile(check_save, response) = "cancel"
         THEN /\ last' = [op |-> "open_file", id |-> Answer(check_save, response),
                          outcome |-> "refused"]
              /\ UNCHANGED fileVars
         ELSE IF CheckOpenFile(check_save, response) = "save"
         THEN /\ SaveBody(fn, "")
              /\ last' = [op |-> "open_file", id |-> Answer(check_save, response),
                          outcome |-> "saving"]
              /\ UNCHANGED <<project, modified, window_destroyed, title_modified,
                             tree_marked_modified, error_dialogs, assistant_visible,
                             assistant_shown_setting, tree_items_loaded, recent_files,
                             settings_recent_files>>
         ELSE /\ OpenFileStarts(fn)
              /\ last' = [op |-> "open_file", id |-> Answer(check_save, response),
                          outcome |-> "opening"]
              /\ UNCHANGED <<project, modified, after_save_action, window_destroyed,
                             title_modified, tree_marked_modified, error_dialogs,
                             assistant_visible, assistant_shown_setting,
                             tree_items_loaded>>
    /\ UNCHANGED <<viewVars, filterVars, interVars, geomVars, spriteVars, updateVars>>

\* on_save_button_clicked, and Ctrl+S with a project open: _save()
OnSaveButtonClicked ==
    /\ UserCanAct
    /\ IF SaveStarts(FALSE)
         THEN /\ SaveBody("None", "")
              /\ last' = [op |-> "save", id |-> 0, outcome |-> "saving"]
         ELSE /\ UNCHANGED <<after_save_action, loading_dialog, dialog_visible, in_flight>>
              /\ last' = [op |-> "save", id |-> 0, outcome |-> "nothing"]
    /\ UNCHANGED <<project, modified, window_destroyed, title_modified,
                   tree_marked_modified, error_dialogs, assistant_visible,
                   assistant_shown_setting, tree_items_loaded, recent_files,
                   settings_recent_files>>
    /\ UNCHANGED <<viewVars, filterVars, interVars, geomVars, spriteVars, updateVars>>

\* Mutant: the debugger's refusal does not block the close.
DeleteEventResult_IgnoresDebugger(debugger_close, response) ==
    IF project # "None" /\ modified
    THEN IF response = 0 THEN "close"
         ELSE IF response = 1 THEN "save"
         ELSE "block"
    ELSE "close"

\* on_main_window_delete_event's branches: "close" where it returns False;
\* "save" where it starts a save that destroys the window afterwards and
\* returns True; "block" where it only returns True.
DeleteEventResult(debugger_close, response) ==
    IF ~debugger_close THEN "block"
    ELSE IF project # "None" /\ modified
         THEN IF response = 0 THEN "close"
              ELSE IF response = 1 THEN "save"
              ELSE "block"
    ELSE "close"

\* on_main_window_delete_event: returning False lets GTK destroy the window.
OnMainWindowDeleteEvent(debugger_close, response) ==
    /\ UserCanAct
    /\ ~AskedToSave(debugger_close) => response = 0
    /\ IF DeleteEventResult(debugger_close, response) = "block"
         THEN /\ last' = [op |-> "delete_event", id |-> Answer(debugger_close, response),
                          outcome |-> "blocked"]
              /\ UNCHANGED fileVars
         ELSE IF DeleteEventResult(debugger_close, response) = "save"
         THEN /\ SaveBody("destroy", "")
              /\ last' = [op |-> "delete_event", id |-> Answer(debugger_close, response),
                          outcome |-> "saving"]
              /\ UNCHANGED <<project, modified, window_destroyed, title_modified,
                             tree_marked_modified, error_dialogs, assistant_visible,
                             assistant_shown_setting, tree_items_loaded, recent_files,
                             settings_recent_files>>
         ELSE /\ window_destroyed' = TRUE
              /\ last' = [op |-> "delete_event", id |-> Answer(debugger_close, response),
                          outcome |-> "closed"]
              /\ UNCHANGED <<project, modified, loading_dialog, dialog_visible, in_flight,
                             after_save_action, title_modified, tree_marked_modified,
                             error_dialogs, assistant_visible, assistant_shown_setting,
                             tree_items_loaded, recent_files, settings_recent_files>>
    /\ UNCHANGED <<viewVars, filterVars, interVars, geomVars, spriteVars, updateVars>>

\* A module marks an entry as modified (rom.has_modifications() turns true,
\* the tree entry gets its mark).  The changed row reaches
\* on_item_store_row_changed, which runs _init_window_before_view_load when
\* the row is the selected one: the title gets its '*'.
MarkAsModified(selected) ==
    /\ UserCanAct
    /\ project # "None"
    /\ ~modified
    /\ modified' = TRUE
    /\ tree_marked_modified' = TRUE
    /\ title_modified' = (title_modified \/ selected)
    /\ last' = [op |-> "mark_as_modified", id |-> 0, outcome |-> "modified"]
    /\ UNCHANGED <<project, loading_dialog, dialog_visible, in_flight, after_save_action,
                   window_destroyed, error_dialogs, assistant_visible,
                   assistant_shown_setting, tree_items_loaded, recent_files,
                   settings_recent_files>>
    /\ UNCHANGED <<viewVars, filterVars, interVars, geomVars, spriteVars, updateVars>>

\* on_file_opened(): RomProject.open finished.  fail_at names the step of
\* the try block that raises, "none" when none does.
OnFileOpened(fail_at) ==
    /\ in_flight.kind = "open"
    /\ ~window_destroyed
    /\ in_flight' = NoOperation
    /\ project' = in_flight.fn
    /\ modified' = FALSE
    /\ title_modified' = FALSE
    /\ tree_items_loaded' = TreeItemsAfter(fail_at)
    /\ IF fail_at # "none"
         THEN /\ Len(error_dialogs) < MaxErrors
              /\ OnFileOpenedErrorEffects
              /\ last' = [op |-> "on_file_opened", id |-> StepIndex(fail_at),
                          outcome |-> "error"]
              /\ UNCHANGED <<assistant_visible, viewVars>>
         ELSE /\ Len(reqs) < MaxRequests
              /\ LoadViewCore(RootItem)
              /\ HideLoadingDialog
              /\ assistant_visible' = (assistant_visible \/ ~assistant_shown_setting)
              /\ last' = [op |-> "on_file_opened", id |-> 0, outcome |-> "opened"]
              /\ UNCHANGED error_dialogs
    /\ UNCHANGED <<after_save_action, window_destroyed, tree_marked_modified,
                   assistant_shown_setting, recent_files, settings_recent_files>>
    /\ UNCHANGED <<filterVars, interVars, geomVars, spriteVars, updateVars>>

\* on_file_opened_error(exc_info, exception): RomProject.open failed.
OnFileOpenedError ==
    /\ in_flight.kind = "open"
    /\ ~window_destroyed
    /\ Len(error_dialogs) < MaxErrors
    /\ in_flight' = NoOperation
    /\ OnFileOpenedErrorEffects
    /\ last' = [op |-> "on_file_opened_error", id |-> 0, outcome |-> "error"]
    /\ UNCHANGED <<project, modified, after_save_action, window_destroyed, title_modified,
                   tree_marked_modified, assistant_visible, assistant_shown_setting,
                   tree_items_loaded, recent_files, settings_recent_files>>
    /\ UNCHANGED <<viewVars, filterVars, interVars, geomVars, spriteVars, updateVars>>

\* on_file_saved(): rom.save succeeded.  The after-save action runs here;
\* check_save is the debugger's answer should the action open a file.
OnFileSaved(check_save) ==
    /\ in_flight.kind = "save"
    /\ after_save_action \notin Files => check_save
    /\ ~window_destroyed
    /\ modified' = FALSE
    /\ title_modified' = FALSE
    /\ tree_marked_modified' = FALSE
    /\ after_save_action' = "None"
    /\ window_destroyed' = (after_save_action = "destroy")
    /\ IF after_save_action \in Files /\ check_save
         THEN /\ OpenFileStarts(after_save_action)
              /\ last' = [op |-> "on_file_saved", id |-> Answer(check_save, 0),
                          outcome |-> "opening"]
         ELSE /\ HideLoadingDialog
              /\ in_flight' = AfterSave(in_flight)
              /\ last' = [op |-> "on_file_saved", id |-> Answer(check_save, 0),
                          outcome |-> IF after_save_action = "destroy" THEN "destroyed"
                                      ELSE "saved"]
              /\ UNCHANGED <<recent_files, settings_recent_files>>
    /\ UNCHANGED <<project, error_dialogs, assistant_visible, assistant_shown_setting,
                   tree_items_loaded>>
    /\ UNCHANGED <<viewVars, filterVars, interVars, geomVars, spriteVars, updateVars>>

\* on_file_saved_error(exc_info, exception): rom.save failed.
OnFileSavedError ==
    /\ in_flight.kind = "save"
    /\ ~window_destroyed
    /\ Len(error_dialogs) < MaxErrors
    /\ in_flight' = AfterSave(in_flight)
    /\ OnFileSavedErrorEffects
    /\ last' = [op |-> "on_file_saved_error", id |-> 0, outcome |-> "error"]
    /\ UNCHANGED <<assistant_visible, assistant_shown_setting, tree_items_loaded,
                   recent_files, settings_recent_files>>
    /\ UNCHANGED <<viewVars, filterVars, interVars, geomVars, spriteVars, updateVars>>

\* The names the user can type in the Save As dialog, and
\* add_extension_if_missing(fn, "nds").
SaveAsNames == {"a.nds", "b"}
AddExtensionIfMissing(fn) == IF fn = "b" THEN "b.nds" ELSE fn

\* The view state that on_save_as_button_clicked leaves alone.
viewVarsButLock == <<current_view_module, current_view_controller_class,
                     current_view_item_id, current_view, stack_loaded, visible_child,
                     reqs, pending, destroyed, unloaded, view_switch_events, error_text,
                     view_load_sentry_event_id, report_button_shown>>

\* on_save_as_button_clicked: the user accepts the dialog with the name fn
\* or cancels it.  The project takes the name and _save(True) runs; the
\* handler goes on after _save returned (SaveAsReturns, or at once when
\* _save started nothing).  With a project open the handler ends in
\* _main_item_list.set_sensitive(True), whatever the dialog's response.
OnSaveAsButtonClicked(fn, accepted) ==
    /\ UserCanAct
    /\ tree_locked' = IF project = "None" \/ (accepted /\ SaveStarts(TRUE))
                      THEN tree_locked ELSE FALSE
    /\ IF project # "None" /\ accepted
         THEN /\ project' = AddExtensionIfMissing(fn)
              /\ IF SaveStarts(TRUE)
                   THEN /\ SaveBody("None", AddExtensionIfMissing(fn))
                        /\ UNCHANGED <<recent_files, settings_recent_files>>
                   ELSE /\ recent_files' = UpdateRecentFiles(recent_files,
                                                             AddExtensionIfMissing(fn))
                        /\ settings_recent_files' = recent_files'
                        /\ UNCHANGED <<after_save_action, loading_dialog, dialog_visible,
                                       in_flight>>
              /\ last' = [op |-> "save_as", id |-> 1,
                          outcome |-> IF SaveStarts(TRUE) THEN "saving" ELSE "nothing"]
         ELSE /\ last' = [op |-> "save_as", id |-> 0, outcome |-> "nothing"]
              /\ UNCHANGED <<project, after_save_action, loading_dialog, dialog_visible,
                             in_flight, recent_files, settings_recent_files>>
    /\ UNCHANGED <<modified, window_destroyed, title_modified, tree_marked_modified,
                   error_dialogs, assistant_visible, assistant_shown_setting,
                   tree_items_loaded>>
    /\ UNCHANGED <<viewVarsButLock, filterVars, interVars, geomVars, spriteVars, updateVars>>

\* on_save_as_button_clicked after _save(True) returned, whether the save
\* succeeded or not: _update_recent_files(fn), then set_sensitive(True)
SaveAsReturns ==
    /\ in_flight.kind = "returned"
    /\ tree_locked' = FALSE
    /\ recent_files' = UpdateRecentFiles(recent_files, in_flight.then)
    /\ settings_recent_files' = recent_files'
    /\ in_flight' = NoOperation
    /\ last' = [op |-> "save_as_returns", id |-> 0, outcome |-> "recent_files"]
    /\ UNCHANGED <<project, modified, loading_dialog, dialog_visible, after_save_action,
                   window_destroyed, title_modified, tree_marked_modified, error_dialogs,
                   assistant_visible, assistant_shown_setting, tree_items_loaded>>
    /\ UNCHANGED <<viewVarsButLock, filterVars, interVars, geomVars, spriteVars, updateVars>>

\* on_main_item_list_button_press_event: a double click on a row of the
\* item tree, with a project open, loads the row's view.
OnMainItemListButtonPress(it) ==
    /\ UserCanAct
    /\ project # "None"
    /\ LoadView(it)

\* on_intro_dialog_close(assistant)
OnIntroDialogClose ==
    /\ assistant_visible
    /\ ~window_destroyed
    /\ assistant_shown_setting' = TRUE
    /\ assistant_visible' = FALSE
    /\ last' = [op |-> "intro_dialog_close", id |-> 0, outcome |-> "closed"]
    /\ UNCHANGED <<project, modified, loading_dialog, dialog_visible, in_flight,
                   after_save_action, window_destroyed, title_modified,
                   tree_marked_modified, error_dialogs, tree_items_loaded, recent_files,
                   settings_recent_files>>
    /\ UNCHANGED <<viewVars, filterVars, interVars, geomVars, spriteVars, updateVars>>

(***************************************************************************)
(* THE DUNGEON INTERRUPTION EDITOR                                         *)
(*                                                                         *)
(* Dungeons are numbered from 1 here (list_dungeons is a sequence);        *)
(* cb_dungeon holds the combo box's active row, 0 when none is active.     *)
(* A row of interrupt_store is a record of its columns 0-4 and 7; columns  *)
(* 5 and 6 are the display texts of columns 1 and 2.                       *)
(***************************************************************************)
NumDungeons == 2

\* An InterDEntry
Entry(floor, ent_type, game_var_id, param1, param2, continue_music) ==
    [floor |-> floor, ent_type |-> ent_type, game_var_id |-> game_var_id,
     param1 |-> param1, param2 |-> param2, continue_music |-> continue_music]

\* A row of interrupt_store
StoreRow(c0, c1, c2, c3, c4, c7) ==
    [c0 |-> c0, c1 |-> c1, c2 |-> c2, c3 |-> c3, c4 |-> c4, c7 |-> c7]

\* u8_checked(v) and u16_checked(v) raise OverflowError outside these ranges.
InU8(v) == v >= 0 /\ v <= 255
InU16(v) == v >= 0 /\ v <= 65535

\* _get_current_dungeon()
GetCurrentDungeon == IF cb_dungeon # 0 THEN cb_dungeon ELSE 1

\* Mutant: the row is appended without the entry's continue_music.
RowOfEntry_DropsMusic(p) == StoreRow(p.floor, p.ent_type, p.game_var_id, p.param1, p.param2,
                                     FALSE)

\* on_cb_dungeon_changed: the row appended for entry p
RowOfEntry(p) == StoreRow(p.floor, p.ent_type, p.game_var_id, p.param1, p.param2,
                          p.continue_music)

\* Mutant: param1 and param2 change places.
EntryOfRow_SwapsParams(v) == Entry(v.c0, v.c1, v.c2, v.c4, v.c3, v.c7)

\* _build_list: the entry built from row v
EntryOfRow(v) == Entry(v.c0, v.c1, v.c2, v.c3, v.c4, v.c7)

\* _build_list: row v passes u8_checked / u16_checked
RowInRange(v) == InU8(v.c0) /\ InU16(v.c2) /\ InU8(v.c3) /\ InU8(v.c4)

\* The number of rows _build_list converts before a check raises.
RECURSIVE RowsBuilt(_)
RowsBuilt(store) ==
    IF store = <<>> \/ ~RowInRange(Head(store)) THEN 0
    ELSE 1 + RowsBuilt(Tail(store))

\* Mutant: the rows go into every dungeon's list.
BuildList_EveryDungeon(store) ==
    LET k == RowsBuilt(store)
    IN  /\ list_dungeons' = [d \in 1..NumDungeons |-> [i \in 1..k |-> EntryOfRow(store[i])]]
        /\ interrupts_modified' = (interrupts_modified \/ k = Len(store))

\* _build_list(): the dungeon's list is emptied, then filled row by row; a
\* row out of range raises OverflowError, which leaves the entries built so
\* far and skips mark_dungeon_interrupts_as_modified().
BuildList(store) ==
    LET k == RowsBuilt(store)
    IN  /\ list_dungeons' = [list_dungeons EXCEPT
               ![GetCurrentDungeon] = [i \in 1..k |-> EntryOfRow(store[i])]]
        /\ interrupts_modified' = (interrupts_modified \/ k = Len(store))

\* How a handler that ended in _build_list ended.
BuildOutcome(store) == IF RowsBuilt(store) = Len(store) THEN "built" ELSE "overflow"

\* @catch_overflow(...) around a handler: the handler's OverflowError ends in
\* an error dialog.  A handler under @glib_async runs from GLib's idle queue,
\* out of the decorator's reach; the handlers without the decorator let the
\* error pass to GTK.
CatchOverflow(decorated, store) == decorated /\ BuildOutcome(store) = "overflow"

\* A handler wrote to interrupt_store and called _build_list().
StoreWritten(store, decorated) ==
    /\ interrupt_edits < MaxEdits
    /\ interrupt_edits' = interrupt_edits + 1
    /\ interrupt_store' = store
    /\ BuildList(store)
    /\ overflow_dialog_shown' = CatchOverflow(decorated, store)
    /\ UNCHANGED cb_dungeon

\* on_cb_dungeon_changed: the user picks dungeon d
OnCbDungeonChanged(d) ==
    /\ cb_dungeon' = d
    /\ interrupt_store' = [i \in 1..Len(list_dungeons[d]) |-> RowOfEntry(list_dungeons[d][i])]
    /\ overflow_dialog_shown' = FALSE
    /\ last' = [op |-> "cb_dungeon_changed", id |-> d, outcome |-> "loaded"]
    /\ UNCHANGED <<list_dungeons, interrupts_modified, interrupt_edits>>
    /\ UNCHANGED <<viewVars, filterVars, fileVars, geomVars, spriteVars, updateVars>>

\* on_btn_add_clicked
OnBtnAddClicked ==
    /\ Len(interrupt_store) < MaxEntries
    /\ LET store == Append(interrupt_store, StoreRow(0, 0, 0, 0, 0, FALSE))
       IN  /\ StoreWritten(store, FALSE)
           /\ last' = [op |-> "btn_add", id |-> Len(store), outcome |-> BuildOutcome(store)]
    /\ UNCHANGED <<viewVars, filterVars, fileVars, geomVars, spriteVars, updateVars>>

\* The rows that are left when the rows in sel are deleted, last row first.
RECURSIVE WithoutRows(_, _)
WithoutRows(store, sel) ==
    IF store = <<>> THEN <<>>
    ELSE LET init == WithoutRows(SubSeq(store, 1, Len(store) - 1), sel)
         IN  IF Len(store) \in sel THEN init ELSE Append(init, store[Len(store)])

\* on_btn_remove_clicked, with the rows sel selected in interrupt_tree
OnBtnRemoveClicked(sel) ==
    /\ LET store == WithoutRows(interrupt_store, sel)
       IN  /\ StoreWritten(store, FALSE)
           /\ last' = [op |-> "btn_remove", id |-> Cardinality(sel),
                       outcome |-> BuildOutcome(store)]
    /\ UNCHANGED <<viewVars, filterVars, fileVars, geomVars, spriteVars, updateVars>>

\* The texts typed into a cell, and int(text): "x" raises ValueError.
CellTexts == {"0", "1", "256", "x"}
IsIntText(text) == text # "x"
IntOf(text) ==
    CASE text = "0" -> 0
      [] text = "1" -> 1
      [] text = "256" -> 256

\* int(text) raised ValueError and the handler returned.
EditReturns(op, path) ==
    /\ last' = [op |-> op, id |-> path, outcome |-> "not_a_number"]
    /\ overflow_dialog_shown' = FALSE
    /\ UNCHANGED <<list_dungeons, interrupt_store, cb_dungeon, interrupts_modified,
                   interrupt_edits>>

\* Mutant: the handler goes on to _build_list() after the ValueError.
OnTextFloorEdited_BuildsAnyway(path, text) ==
    /\ path \in 1..Len(interrupt_store)
    /\ LET store == IF IsIntText(text)
                    THEN [interrupt_store EXCEPT ![path].c0 = IntOf(text)]
                    ELSE interrupt_store
       IN  /\ StoreWritten(store, TRUE)
           /\ last' = [op |-> "floor_edited", id |-> path,
                       outcome |-> IF IsIntText(text) THEN BuildOutcome(store)
                                   ELSE "not_a_number"]
    /\ UNCHANGED <<viewVars, filterVars, fileVars, geomVars, spriteVars, updateVars>>

\* on_text_floor_edited(widget, path, text) under @catch_overflow(u8):
\* the store takes the number, then _build_list runs.
OnTextFloorEdited(path, text) ==
    /\ path \in 1..Len(interrupt_store)
    /\ IF ~IsIntText(text)
         THEN EditReturns("floor_edited", path)
         ELSE LET store == [interrupt_store EXCEPT ![path].c0 = IntOf(text)]
              IN  /\ StoreWritten(store, TRUE)
                  /\ last' = [op |-> "floor_edited", id |-> path,
                              outcome |-> BuildOutcome(store)]
    /\ UNCHANGED <<viewVars, filterVars, fileVars, geomVars, spriteVars, updateVars>>

\* on_text_param1_edited(widget, path, text) under @catch_overflow(u8)
OnTextParam1Edited(path, text) ==
    /\ path \in 1..Len(interrupt_store)
    /\ IF ~IsIntText(text)
         THEN EditReturns("param1_edited", path)
         ELSE LET store == [interrupt_store EXCEPT ![path].c3 = IntOf(text)]
              IN  /\ StoreWritten(store, TRUE)
                  /\ last' = [op |-> "param1_edited", id |-> path,
                              outcome |-> BuildOutcome(store)]
    /\ UNCHANGED <<viewVars, filterVars, fileVars, geomVars, spriteVars, updateVars>>

\* on_text_param2_edited(widget, path, text) under @catch_overflow(u8)
OnTextParam2Edited(path, text) ==
    /\ path \in 1..Len(interrupt_store)
    /\ IF ~IsIntText(text)
         THEN EditReturns("param2_edited", path)
         ELSE LET store == [interrupt_store EXCEPT ![path].c4 = IntOf(text)]
              IN  /\ StoreWritten(store, TRUE)
                  /\ last' = [op |-> "param2_edited", id |-> path,
                              outcome |-> BuildOutcome(store)]
    /\ UNCHANGED <<viewVars, filterVars, fileVars, geomVars, spriteVars, updateVars>>

\* The ids in type_store and in var_store.

\* on_combo_type_changed(w, treepath, treeiter) under @glib_async
OnComboTypeChanged(path, type_id) ==
    /\ path \in 1..Len(interrupt_store)
    /\ LET store == [interrupt_store EXCEPT ![path].c1 = type_id]
       IN  /\ StoreWritten(store, FALSE)
           /\ last' = [op |-> "combo_type_changed", id |-> path,
                       outcome |-> BuildOutcome(store)]
    /\ UNCHANGED <<viewVars, filterVars, fileVars, geomVars, spriteVars, updateVars>>

\* on_combo_game_var_changed(w, treepath, treeiter) under @catch_overflow(u16)
\* and @glib_async
OnComboGameVarChanged(path, var_id) ==
    /\ path \in 1..Len(interrupt_store)
    /\ LET store == [interrupt_store EXCEPT ![path].c2 = var_id]
       IN  /\ StoreWritten(store, FALSE)
           /\ last' = [op |-> "combo_game_var_changed", id |-> path,
                       outcome |-> BuildOutcome(store)]
    /\ UNCHANGED <<viewVars, filterVars, fileVars, geomVars, spriteVars, updateVars>>

\* on_continue_music_toggled(widget, path): the renderer shows the row's
\* column 7, which the handler negates.
OnContinueMusicToggled(path) ==
    /\ path \in 1..Len(interrupt_store)
    /\ LET store == [interrupt_store EXCEPT ![path].c7 = ~interrupt_store[path].c7]
       IN  /\ StoreWritten(store, FALSE)
           /\ last' = [op |-> "continue_music_toggled", id |-> path,
                       outcome |-> BuildOutcome(store)]
    /\ UNCHANGED <<viewVars, filterVars, fileVars, geomVars, spriteVars, updateVars>>

(***************************************************************************)
(* THE WINDOW GEOMETRY                                                     *)
(*                                                                         *)
(* GTK sends a configure event whenever the window is moved, resized,      *)
(* maximized or restored.  The handler puts off the write to the settings  *)
(* with a GLib timeout of one second; glib_timeouts holds the ids of the   *)
(* sources that GLib still has to fire.  A maximized window reports the    *)
(* position "origin" and the size "screen" and remembers the position and  *)
(* size it goes back to.                                                   *)
(***************************************************************************)
Positions == {"p1", "p2"}
Sizes == {"small", "large"}

\* A window that is not maximized, at position p with size z.
NormalWindow(p, z) ==
    [position |-> p, size |-> z, maximized |-> FALSE,
     restore_position |-> p, restore_size |-> z]

\* The states a configure event can report after state w: the user moved or
\* resized the window, maximized it, or restored it.
WindowsAfter(w) ==
    IF w.maximized
    THEN {w, NormalWindow(w.restore_position, w.restore_size)}
    ELSE {NormalWindow(p, z) : p \in Positions, z \in Sizes}
         \cup {[position |-> "origin", size |-> "screen", maximized |-> TRUE,
                restore_position |-> w.position, restore_size |-> w.size]}

\* Mutant: the pending timeout is not cancelled.
SourceRemove_Keeps(sources, id) == sources

\* GLib.source_remove(id)
SourceRemove(sources, id) == sources \ {id}

\* on_main_window_configure_event: w is the window's state after the event.
OnMainWindowConfigureEvent(w) ==
    /\ source_count < MaxConfigureEvents
    /\ w \in WindowsAfter(window)
    /\ window' = w
    /\ source_count' = source_count + 1
    /\ glib_timeouts' =
           (IF resize_timeout_id # 0 THEN SourceRemove(glib_timeouts, resize_timeout_id)
            ELSE glib_timeouts) \cup {source_count + 1}
    /\ resize_timeout_id' = source_count + 1
    /\ last' = [op |-> "configure_event", id |-> source_count + 1, outcome |-> "scheduled"]
    /\ UNCHANGED <<settings_window, geometry_writes>>
    /\ UNCHANGED <<viewVars, filterVars, fileVars, interVars, spriteVars, updateVars>>

\* Mutant: the size is stored whether the window is maximized or not.
StoredGeometry_AlwaysSize(w, stored) ==
    [position |-> w.position, maximized |-> w.maximized, size |-> w.size]

\* What on_main_window_configure_event__handle stores: position and
\* maximized always, the size when the window is not maximized.
StoredGeometry(w, stored) ==
    [position |-> w.position,
     maximized |-> w.maximized,
     size |-> IF ~w.maximized THEN w.size ELSE stored.size]

\* on_main_window_configure_event__handle: the timeout with this id fires.
\* The handler returns None, so GLib drops the source.
OnMainWindowConfigureEventHandle(id) ==
    /\ id \in glib_timeouts
    /\ settings_window' = StoredGeometry(window, settings_window)
    /\ resize_timeout_id' = 0
    /\ glib_timeouts' = glib_timeouts \ {id}
    /\ geometry_writes' = geometry_writes + 1
    /\ last' = [op |-> "configure_event_handle", id |-> id, outcome |-> "stored"]
    /\ UNCHANGED <<window, source_count>>
    /\ UNCHANGED <<viewVars, filterVars, fileVars, interVars, spriteVars, updateVars>>

(***************************************************************************)
(* THE SPRITE PREVIEW                                                      *)
(*                                                                         *)
(* get_view builds the view and calls start_sprite_drawing, its only       *)
(* caller; the draw area sits inside the view's main box from then on.     *)
(* GLib calls _tick every 1000/FPS ms for as long as _tick returns a true  *)
(* value.  The main controller takes the view out of the editor stack and  *)
(* destroys it when another view comes: the draw area has no parent then.  *)
(***************************************************************************)

\* start_sprite_drawing()
StartSpriteDrawing ==
    /\ drawing_is_active' = TRUE
    /\ redraw_queued' = TRUE
    /\ tick_timers' = tick_timers + 1

\* get_view(): a negative item id gives a label and starts nothing.
GetView(valid_item) ==
    /\ draw_area = "None"
    /\ IF valid_item
         THEN /\ draw_area' = "attached"
              /\ StartSpriteDrawing
              /\ last' = [op |-> "get_view", id |-> 0, outcome |-> "drawing"]
         ELSE /\ last' = [op |-> "get_view", id |-> 0, outcome |-> "invalid"]
              /\ UNCHANGED <<draw_area, drawing_is_active, redraw_queued, tick_timers>>
    /\ UNCHANGED <<frame_counter, window_has_focus>>
    /\ UNCHANGED <<viewVars, filterVars, fileVars, interVars, geomVars, importVars, updateVars>>

\* stop_sprite_drawing()
StopSpriteDrawing ==
    /\ draw_area # "None"
    /\ drawing_is_active' = FALSE
    /\ last' = [op |-> "stop_sprite_drawing", id |-> 0, outcome |-> "stopped"]
    /\ UNCHANGED <<draw_area, tick_timers, frame_counter, redraw_queued, window_has_focus>>
    /\ UNCHANGED <<viewVars, filterVars, fileVars, interVars, geomVars, importVars, updateVars>>

\* Mutant: _tick returns True whatever _drawing_is_active is.
TickReturn_AlwaysTrue(active) == TRUE

\* _tick's last line: return self._drawing_is_active
TickReturn(active) == active

\* _tick(): a timeout fires.  A false return value ends the timeout.
\* last.id is 1 when this tick called queue_draw().
Tick ==
    /\ tick_timers > 0
    /\ IF draw_area = "None"
         THEN /\ tick_timers' = tick_timers - 1
              /\ last' = [op |-> "tick", id |-> 0, outcome |-> "ended"]
              /\ UNCHANGED <<draw_area, frame_counter, redraw_queued>>
         ELSE IF draw_area # "attached"
         THEN /\ draw_area' = "destroyed"
              /\ tick_timers' = tick_timers - 1
              /\ last' = [op |-> "tick", id |-> 0, outcome |-> "ended"]
              /\ UNCHANGED <<frame_counter, redraw_queued>>
         ELSE /\ frame_counter < MaxTicks
              /\ redraw_queued' = (redraw_queued \/ window_has_focus)
              /\ frame_counter' = frame_counter + 1
              /\ tick_timers' = IF TickReturn(drawing_is_active) THEN tick_timers
                                ELSE tick_timers - 1
              /\ last' = [op |-> "tick", id |-> IF window_has_focus THEN 1 ELSE 0,
                          outcome |-> IF TickReturn(drawing_is_active) THEN "rearmed"
                                      ELSE "ended"]
              /\ UNCHANGED draw_area
    /\ UNCHANGED <<drawing_is_active, window_has_focus>>
    /\ UNCHANGED <<viewVars, filterVars, fileVars, interVars, geomVars, importVars, updateVars>>

\* The view leaves the editor stack: the draw area loses its parent.
DrawAreaLosesParent ==
    /\ draw_area = "attached"
    /\ draw_area' = "detached"
    /\ redraw_queued' = FALSE
    /\ last' = [op |-> "view_removed", id |-> 0, outcome |-> "detached"]
    /\ UNCHANGED <<drawing_is_active, tick_timers, frame_counter, window_has_focus>>
    /\ UNCHANGED <<viewVars, filterVars, fileVars, interVars, geomVars, importVars, updateVars>>

\* The main window gains or loses the focus.
FocusChanges ==
    /\ window_has_focus' = ~window_has_focus
    /\ last' = [op |-> "focus", id |-> 0, outcome |-> "changed"]
    /\ UNCHANGED <<drawing_is_active, draw_area, tick_timers, frame_counter, redraw_queued>>
    /\ UNCHANGED <<viewVars, filterVars, fileVars, interVars, geomVars, importVars, updateVars>>

\* on_draw_sprite_draw: GTK draws the area that was queued.
OnDrawSpriteDraw ==
    /\ redraw_queued
    /\ draw_area = "attached"
    /\ redraw_queued' = FALSE
    /\ last' = [op |-> "draw", id |-> 0, outcome |-> "drawn"]
    /\ UNCHANGED <<drawing_is_active, draw_area, tick_timers, frame_counter,
                   window_has_focus>>
    /\ UNCHANGED <<viewVars, filterVars, fileVars, interVars, geomVars, importVars, updateVars>>

(***************************************************************************)
(* THE SPRITESHEET IMPORT                                                  *)
(*                                                                         *)
(* The item has three sprites; sprite_version tells for each the import    *)
(* that saved it last, 0 for the sprite of the ROM.                        *)
(***************************************************************************)
SpriteKinds == {"monster", "ground", "attack"}

\* The calls of on_import_clicked's try block that can raise, in order.
ImportSteps == <<"import_sheets", "split_wan", "save_monster_monster_sprite",
                 "save_monster_ground_sprite", "save_monster_attack_sprite">>

ImportStepIndex(step) ==
    IF step = "none" THEN Len(ImportSteps) + 1
    ELSE CHOOSE i \in 1..Len(ImportSteps) : ImportSteps[i] = step

\* The sprites whose save call returned before the step fail_at raised.
SpritesSaved(fail_at) ==
    {k \in SpriteKinds :
        \/ k = "monster" /\ ImportStepIndex(fail_at) > ImportStepIndex("save_monster_monster_sprite")
        \/ k = "ground" /\ ImportStepIndex(fail_at) > ImportStepIndex("save_monster_ground_sprite")
        \/ k = "attack" /\ ImportStepIndex(fail_at) > ImportStepIndex("save_monster_attack_sprite")}

\* The result dialogs of one run: "Success!" is shown once split_wan
\* returned, before the sprites are saved; display_error when a step raised.
ImportDialogs(fail_at) ==
    (IF ImportStepIndex(fail_at) > ImportStepIndex("split_wan")
     THEN <<"Success!">> ELSE <<>>)
    \o (IF fail_at # "none" THEN <<"Error importing the spritesheet.">> ELSE <<>>)

\* on_import_clicked: the user accepts the folder dialog or cancels it;
\* fail_at names the step that raises, "none" when none does.
OnImportClicked(accepted, fail_at) ==
    /\ draw_area # "None"
    /\ IF ~accepted
         THEN /\ fail_at = "none"
              /\ last' = [op |-> "import_clicked", id |-> 0, outcome |-> "cancelled"]
              /\ UNCHANGED importVars
         ELSE /\ imports_started < MaxImports
              /\ imports_started' = imports_started + 1
              /\ sprite_version' = [k \in SpriteKinds |->
                     IF k \in SpritesSaved(fail_at) THEN imports_started + 1
                     ELSE sprite_version[k]]
              /\ sprite_dialogs' = sprite_dialogs \o ImportDialogs(fail_at)
              /\ item_marked_modified' = (item_marked_modified \/ fail_at = "none")
              /\ view_reloads' = IF fail_at = "none" THEN view_reloads + 1 ELSE view_reloads
              /\ last' = [op |-> "import_clicked", id |-> imports_started + 1,
                          outcome |-> IF fail_at = "none" THEN "imported" ELSE "error"]
    /\ UNCHANGED <<drawing_is_active, draw_area, tick_timers, frame_counter, redraw_queued,
                   window_has_focus>>
    /\ UNCHANGED <<viewVars, filterVars, fileVars, interVars, geomVars, updateVars>>

(***************************************************************************)
(* THE UPDATE CHECK                                                        *)
(*                                                                         *)
(* A release is the sequence of the numbers of a version string ("1.2" is  *)
(* <<1, 2>>).  check_newest_release returns a version string, returns a    *)
(* string that is no version, or raises.                                   *)
(***************************************************************************)
Releases == [1..2 -> 0..MaxVersionPart] \cup [1..3 -> 0..MaxVersionPart]

\* Mutant: the running version counts as older than an equal one.
VersionLess_OrEqual(a, b) ==
    LET part(v, i) == IF i <= Len(v) THEN v[i] ELSE 0
    IN  \A i \in 1..3 :
            (\A j \in 1..(i - 1) : part(a, j) = part(b, j)) => part(a, i) <= part(b, i)

\* packaging.version.parse(a) < packaging.version.parse(b): the releases are
\* compared number by number from the left, the shorter one padded with
\* zeros, so "1.2" and "1.2.0" are equal.
VersionLess(a, b) ==
    LET part(v, i) == IF i <= Len(v) THEN v[i] ELSE 0
    IN  \E i \in 1..3 :
            /\ part(a, i) < part(b, i)
            /\ \A j \in 1..(i - 1) : part(a, j) = part(b, j)

\* _check_for_updates, called by __init__: the label is set and the box left
\* alone when the newest release parses and is greater than the running
\* version; every other way through the try block, an exception of
\* check_newest_release or of parse included, ends in update_info.hide().
CheckForUpdates(result) ==
    /\ startup_step = "check_for_updates"
    /\ newest_release' = result
    /\ IF result.kind = "version" /\ VersionLess(running_version, result.release)
         THEN /\ update_new_version' = result.release
              /\ UNCHANGED update_info_visible
              /\ last' = [op |-> "check_for_updates", id |-> 0, outcome |-> "newer"]
         ELSE /\ update_info_visible' = FALSE
              /\ UNCHANGED update_new_version
              /\ last' = [op |-> "check_for_updates", id |-> 0,
                          outcome |-> IF result.kind = "version" THEN "not_newer"
                                      ELSE "exception"]
    /\ startup_step' = "check_for_banner"
    /\ UNCHANGED running_version
    /\ UNCHANGED <<viewVars, filterVars, fileVars, interVars, geomVars, spriteVars>>

(***************************************************************************)
(* States of the parts a specification leaves alone.                       *)
(***************************************************************************)
FilterIdle ==
    /\ n_rows = 0
    /\ row_parent = <<>>
    /\ row_text = <<>>
    /\ row_visible = <<>>
    /\ row_expanded = {}
    /\ search_input = <<>>
    /\ search_text = NoText

\* MainController.__init__, with project p open (or "None"), its
\* modification flag m, and the settings' "assistant shown" and recent files.
FileIdle(p, m, shown, rf) ==
    /\ project = p
    /\ modified = m
    /\ loading_dialog = "None"
    /\ dialog_visible = FALSE
    /\ in_flight = NoOperation
    /\ after_save_action = "None"
    /\ window_destroyed = FALSE
    /\ title_modified = FALSE
    /\ tree_marked_modified = m
    /\ error_dialogs = <<>>
    /\ assistant_visible = FALSE
    /\ assistant_shown_setting = shown
    /\ tree_items_loaded = "none"
    /\ recent_files = rf
    /\ settings_recent_files = rf

InterIdle ==
    /\ list_dungeons = <<>>
    /\ interrupt_store = <<>>
    /\ cb_dungeon = 0
    /\ interrupts_modified = FALSE
    /\ interrupt_edits = 0
    /\ overflow_dialog_shown = FALSE

\* MainController.__init__: no resize timeout; the window as the settings
\* describe it (_load_position_and_size).
GeomIdle ==
    /\ resize_timeout_id = 0
    /\ glib_timeouts = {}
    /\ source_count = 0
    /\ window = [position |-> "p1", size |-> "small", maximized |-> FALSE,
                 restore_position |-> "p1", restore_size |-> "small"]
    /\ settings_window = [position |-> "p1", size |-> "small", maximized |-> FALSE]
    /\ geometry_writes = 0

\* MonsterSpriteController.__init__
SpriteIdle ==
    /\ drawing_is_active = FALSE
    /\ draw_area = "None"
    /\ tick_timers = 0
    /\ frame_counter = 0
    /\ redraw_queued = FALSE
    /\ window_has_focus = TRUE
    /\ sprite_version = [k \in SpriteKinds |-> 0]
    /\ imports_started = 0
    /\ item_marked_modified = FALSE
    /\ view_reloads = 0
    /\ sprite_dialogs = <<>>

\* The window after __init__ returned, the update check having raised.
UpdateIdle ==
    /\ running_version = <<1, 0>>
    /\ newest_release = [kind |-> "raised", release |-> << >>]
    /\ update_info_visible = FALSE
    /\ update_new_version = << >>
    /\ startup_step = "done"

NoHandler == [op |-> "none", id |-> 0, outcome |-> "none"]

(***************************************************************************)
(* SpecView: a project is open; views are requested, reloaded and their    *)
(* tasks complete in any order.                                            *)
(***************************************************************************)
InitView ==
    /\ ViewIdle
    /\ FilterIdle
    /\ FileIdle("a.nds", FALSE, TRUE, <<>>)
    /\ InterIdle
    /\ GeomIdle
    /\ SpriteIdle
    /\ UpdateIdle
    /\ last = NoHandler

NextView ==
    \/ \E it \in Items : LoadView(it)
    \/ \E it \in Items : OnMainItemListButtonPress(it)
    \/ ReloadView
    \/ \E id \in pending, raises \in BOOLEAN, sid \in SentryIds : OnViewLoaded(id, raises, sid)
    \/ \E id \in pending, sid \in SentryIds : OnViewLoadedError(id, sid)

SpecView == InitView /\ [][NextView]_vars

\* The (module, controller class, item id) of a load task.
Triple(r) == <<r.module, r.cls, r.item>>

\* The most recent MainController.load_view request (0: none yet).
LastLoadView ==
    LET L == {i \in 1..Len(reqs) : reqs[i].kind = "load_view"}
    IN  IF L = {} THEN 0 ELSE CHOOSE i \in L : \A j \in L : j <= i

\* C1: once every load task has completed and none of them failed, the
\* presented view (_current_view, the stack's es__loaded_view child, the
\* visible page) has the module, class and item id of the most recent
\* load_view request.
C1_LastRequestedViewWins ==
    (pending = {} /\ LastLoadView # 0 /\ error_text = 0) =>
        /\ current_view # 0
        /\ stack_loaded = current_view
        /\ visible_child = "es__loaded_view"
        /\ Triple(reqs[current_view]) = Triple(reqs[LastLoadView])

\* C1's case: three requests, the first completing last, out of order.
C1_Witness ==
    /\ pending = {} /\ error_text = 0 /\ Len(reqs) = 3
    /\ \A i \in 1..3 : reqs[i].kind = "load_view"
    /\ Triple(reqs[1]) # Triple(reqs[3])
    /\ last = [op |-> "on_view_loaded", id |-> 1, outcome |-> "stale"]
    /\ current_view = 3

\* C2 as stated: the view of a load_view request that was followed by a
\* later load_view request is never presented.
C2_StaleNeverPresented ==
    (last.outcome = "presented" /\ reqs[last.id].kind = "load_view") =>
        ~ \E j \in (last.id + 1)..Len(reqs) : reqs[j].kind = "load_view"

\* C2 amended: a view is presented only while its module, class and item id
\* are those of the most recent load_view request; the view of an earlier
\* request for a different item is never presented.
C2_PresentedMatchesLastRequest ==
    last.outcome = "presented" =>
        /\ LastLoadView # 0
        /\ Triple(reqs[last.id]) = Triple(reqs[LastLoadView])
        /\ current_view = last.id

\* C2's case: the view of the first request arrives and is presented after
\* a later request for the same item.
C2_Witness ==
    /\ last = [op |-> "on_view_loaded", id |-> 1, outcome |-> "presented"]
    /\ Len(reqs) = 3 /\ reqs[3].kind = "load_view"
    /\ Triple(reqs[2]) # Triple(reqs[1])

\* C3: a completion whose view does not match the requested triple destroys
\* that view and changes nothing else: not _current_view, the stack child,
\* the visible page or the tree lock; nothing is unloaded and no
\* EVT_VIEW_SWITCH is triggered.
C3_StaleDiscardChangesNothingElse ==
    [][ (last'.op = "on_view_loaded" /\ last'.outcome = "stale") =>
            /\ destroyed' = destroyed \cup {last'.id}
            /\ UNCHANGED <<current_view, stack_loaded, visible_child, tree_locked,
                           unloaded, view_switch_events, current_view_module,
                           current_view_controller_class, current_view_item_id,
                           error_text, report_button_shown>>
      ]_vars

\* C3's case: a stale view arrived while a view is presented and the tree is
\* locked for the newer request.
C3_Witness ==
    /\ last.op = "on_view_loaded" /\ last.outcome = "stale"
    /\ current_view # 0 /\ stack_loaded = current_view
    /\ tree_locked /\ last.id \in destroyed

\* C9: a failed view load shows the error page with the traceback, unlocks
\* the tree and shows the report button exactly when capture_error returned
\* an event id; when get_view raised, the old loaded view is also removed
\* from the stack and destroyed and the failing controller is unloaded.
C9_ViewLoadFailure ==
    [][ (last'.op = "on_view_loaded_error" \/ last'.outcome = "get_view_raised") =>
            /\ visible_child' = "es_error"
            /\ error_text' = last'.id
            /\ ~tree_locked'
            /\ report_button_shown' <=> (view_load_sentry_event_id' # "None")
            /\ last'.outcome = "get_view_raised" =>
                   /\ stack_loaded' = 0
                   /\ stack_loaded # 0 => stack_loaded \in destroyed'
                   /\ last'.id \in unloaded'
      ]_vars

\* C9's case: get_view raised while another view was presented, and
\* capture_error returned an event id.
C9_Witness ==
    /\ last.outcome = "get_view_raised"
    /\ visible_child = "es_error" /\ report_button_shown
    /\ stack_loaded = 0 /\ current_view # 0 /\ current_view \in destroyed
    /\ last.id \in unloaded

(***************************************************************************)
(* SpecFilter: a tree of any shape was loaded, every row visible; the user *)
(* types into the search entry.                                            *)
(***************************************************************************)
InitFilter ==
    /\ n_rows \in 1..MaxRows
    /\ row_parent \in [1..n_rows -> 0..(n_rows - 1)]
    /\ IsPreorderForest(row_parent)
    /\ row_text \in [1..n_rows -> RowTexts]
    /\ row_visible = [r \in 1..n_rows |-> TRUE]
    /\ row_expanded = {}
    /\ search_input = <<>>
    /\ search_text = NoText
    /\ ViewIdle
    /\ FileIdle("a.nds", FALSE, TRUE, <<>>)
    /\ InterIdle
    /\ GeomIdle
    /\ SpriteIdle
    /\ UpdateIdle
    /\ last = NoHandler

NextFilter == \E input \in SearchInputs : OnSearchChanged(input)

SpecFilter == InitFilter /\ [][NextFilter]_vars

\* The rows strictly above row r.
RowAncestors(r) == PathTo(r) \ {r}

\* Row r's text contains the search text, letter case ignored.
RowMatches(r) ==
    \E i \in 0..(Len(row_text[r]) - Len(search_text)) :
        \A k \in 1..Len(search_text) :
            Lower(row_text[r][i + k]) = Lower(search_text[k])

\* C4: after every refresh of the search filter, every visible row has all
\* of its ancestors visible.
C4_VisibleRowsHaveVisibleAncestors ==
    last.op = "search_changed" =>
        \A r \in Rows : row_visible[r] => \A a \in RowAncestors(r) : row_visible[a]

\* C4's case: a filtered tree with a visible row two levels down and a
\* hidden row.
C4_Witness ==
    /\ last.op = "search_changed" /\ search_text # <<>>
    /\ \E r \in Rows : row_visible[r] /\ Cardinality(RowAncestors(r)) >= 2
    /\ \E r \in Rows : ~row_visible[r]

\* C5: after a refresh with a non-empty search text, a row is visible if and
\* only if it matches, lies above a matching row or lies below one.
C5_VisibleIffRelatedToMatch ==
    (last.op = "search_changed" /\ search_text # <<>>) =>
        \A r \in Rows :
            row_visible[r] <=>
                \E m \in Rows :
                    /\ RowMatches(m)
                    /\ (m = r \/ m \in RowAncestors(r) \/ r \in RowAncestors(m))

\* C5's case: a matching row below a matching row, so that the second
\* match finds its child already visible; a hidden row elsewhere.
C5_Witness ==
    /\ last.op = "search_changed" /\ search_text # <<>>
    /\ n_rows >= 4
    /\ row_parent[2] = 1 /\ row_parent[3] = 2
    /\ RowMatches(1) /\ RowMatches(2) /\ ~RowMatches(3) /\ row_visible[3]
    /\ row_text[2] # search_text
    /\ ~row_visible[4]

\* The typed text is empty or whitespace only.
IsBlank(s) == \A i \in 1..Len(s) : IsSpace(s[i])

\* C6: when the search entry's text is empty or only whitespace, the
\* handler makes every row visible.
C6_BlankSearchShowsAll ==
    (last.op = "search_changed" /\ IsBlank(search_input)) =>
        \A r \in Rows : row_visible[r]

\* C6's case: a whitespace-only text was typed, every row is visible.
C6_Witness ==
    /\ last.op = "search_changed"
    /\ search_input # <<>> /\ IsBlank(search_input)
    /\ n_rows >= 3
    /\ \A r \in Rows : row_visible[r]
    /\ row_expanded # {}

(***************************************************************************)
(* SpecFile: files are opened, modified, saved; the window is closed.      *)
(***************************************************************************)
\* settings.get_recent_files() at start: a list left by earlier versions,
\* with a file named twice.
StoredRecentFiles == <<"b.nds", "a.nds", "b.nds">>

InitFile ==
    /\ \E shown \in BOOLEAN : FileIdle("None", FALSE, shown, StoredRecentFiles)
    /\ ViewIdle
    /\ FilterIdle
    /\ InterIdle
    /\ GeomIdle
    /\ SpriteIdle
    /\ UpdateIdle
    /\ last = NoHandler

NextFile ==
    \/ \E fn \in Files, check_save \in BOOLEAN, response \in Responses :
           OpenFile(fn, check_save, response)
    \/ OnSaveButtonClicked
    \/ \E debugger_close \in BOOLEAN, response \in Responses :
           OnMainWindowDeleteEvent(debugger_close, response)
    \/ \E selected \in BOOLEAN : MarkAsModified(selected)
    \/ \E fail_at \in {OpenSteps[i] : i \in 1..Len(OpenSteps)} \cup {"none"} :
           OnFileOpened(fail_at)
    \/ OnFileOpenedError
    \/ \E check_save \in BOOLEAN : OnFileSaved(check_save)
    \/ OnFileSavedError
    \/ OnIntroDialogClose
    \/ \E fn \in SaveAsNames, accepted \in BOOLEAN : OnSaveAsButtonClicked(fn, accepted)
    \/ SaveAsReturns

SpecFile == InitFile /\ [][NextFile]_vars

\* C7: when a step of on_file_opened's try block raises, the error dialog
\* "Error opening the ROM" is shown, the loading dialog is hidden and its
\* reference cleared, no view load is requested and the intro assistant is
\* not shown.
C7_FileOpenedErrorAborts ==
    [][ (last'.op = "on_file_opened" /\ last'.outcome = "error") =>
            /\ error_dialogs' = Append(error_dialogs, "Error opening the ROM")
            /\ loading_dialog' = "None"
            /\ ~dialog_visible'
            /\ reqs' = reqs /\ pending' = pending
            /\ UNCHANGED <<current_view_module, current_view_controller_class,
                           current_view_item_id, visible_child, tree_locked>>
            /\ assistant_visible' = assistant_visible
      ]_vars

\* C7's case: finalising the tree raised while opening a file for a user
\* who has not seen the assistant yet.
C7_Witness ==
    /\ last = [op |-> "on_file_opened", id |-> StepIndex("finalize"), outcome |-> "error"]
    /\ ~assistant_shown_setting /\ ~assistant_visible
    /\ loading_dialog = "None" /\ ~dialog_visible
    /\ reqs = <<>>
    /\ error_dialogs = <<"Error opening the ROM">>

\* C8: when a save fails, the error dialog "Error saving the ROM" is shown,
\* the loading dialog is hidden and cleared, the after-save action is not
\* executed (the window is not destroyed, no file is opened), the title
\* keeps its state and the tree entries keep their marks.
C8_FileSavedErrorAborts ==
    [][ last'.op = "on_file_saved_error" =>
            /\ error_dialogs' = Append(error_dialogs, "Error saving the ROM")
            /\ loading_dialog' = "None"
            /\ ~dialog_visible'
            /\ ~window_destroyed'
            /\ in_flight'.kind \notin {"open", "save"}
            /\ UNCHANGED <<project, modified, title_modified, tree_marked_modified,
                           recent_files, settings_recent_files>>
      ]_vars

\* C8's case: the save started by closing the window failed; the title
\* carries its '*', the entries their marks, the window is still there.
C8_Witness ==
    /\ last.op = "on_file_saved_error"
    /\ after_save_action = "destroy" /\ ~window_destroyed
    /\ title_modified /\ tree_marked_modified /\ modified
    /\ loading_dialog = "None"

\* C11: when the debugger's check_save refuses, or the project has
\* modifications and the user answers Cancel, _open_file starts no
\* RomProject.open and no save, leaves the recent files and the settings
\* alone and does not show the loading dialog.  This holds for the user's
\* request and for the _open_file that runs as an after-save action.
C11_RefusedOpenStartsNothing ==
    [][ ( \/ /\ last'.op = "open_file"
             /\ \/ last'.id = Answer(FALSE, 0)
                \/ (project # "None" /\ modified /\ last'.id = -6)
          \/ /\ last'.op = "on_file_saved"
             /\ after_save_action \in Files
             /\ last'.id = Answer(FALSE, 0) ) =>
            /\ in_flight' = NoOperation
            /\ loading_dialog' = "None"
            /\ ~dialog_visible'
            /\ UNCHANGED <<project, recent_files, settings_recent_files>>
      ]_vars

\* C11's case: the user answered Cancel for a modified project.
C11_Witness ==
    /\ last = [op |-> "open_file", id |-> -6, outcome |-> "refused"]
    /\ project = "a.nds" /\ modified
    /\ in_flight = NoOperation /\ ~dialog_visible
    /\ recent_files[1] = "a.nds"

\* C12: when the user chooses Save on opening a file over a modified
\* project, a save starts and the file is not opened yet; an open that
\* follows a save starts in on_file_saved, for the file that save was started
\* for, and clears the after-save action so that it runs once; a failed save
\* starts nothing.
C12_OpensOnceAfterSuccessfulSave ==
    [][ /\ (last'.op = "open_file" /\ project # "None" /\ modified /\ last'.id = 1) =>
               /\ in_flight'.kind = "save"
               /\ in_flight'.action \in Files
               /\ after_save_action' = in_flight'.action
               /\ UNCHANGED <<project, recent_files, settings_recent_files>>
        /\ (in_flight.kind = "save" /\ in_flight'.kind = "open") =>
               /\ last'.op = "on_file_saved"
               /\ in_flight.action = in_flight'.fn
               /\ after_save_action' = "None"
        /\ last'.op = "on_file_saved_error" =>
               /\ in_flight'.kind \notin {"open", "save"}
               /\ UNCHANGED <<project, recent_files, settings_recent_files>>
      ]_vars

\* C12's case: a first save failed, the user asked again, the second save
\* succeeded and the other file is being opened.
C12_Witness ==
    /\ last = [op |-> "on_file_saved", id |-> 0, outcome |-> "opening"]
    /\ in_flight.kind = "open" /\ in_flight.fn = "b.nds"
    /\ project = "a.nds"
    /\ after_save_action = "None"
    /\ error_dialogs = <<"Error saving the ROM">>

\* C13: the window is destroyed only by a delete event the debugger agreed
\* to, with no project, no modifications or the answer "Don't Save", or by
\* the success of the save that the answer Save started; with Save the
\* delete event itself leaves the window; with Cancel or a refusing debugger
\* it changes nothing and saves nothing.
C13_CloseNeverLosesChanges ==
    [][ /\ (window_destroyed' /\ ~window_destroyed) =>
               \/ /\ last'.op = "delete_event"
                  /\ last'.id # Answer(FALSE, 0)
                  /\ (project = "None" \/ ~modified \/ last'.id = 0)
               \/ /\ last'.op = "on_file_saved"
                  /\ in_flight.kind = "save"
                  /\ in_flight.action = "destroy"
        /\ (last'.op = "delete_event" /\ project # "None" /\ modified /\ last'.id = 1) =>
               /\ ~window_destroyed'
               /\ in_flight'.kind = "save"
               /\ in_flight'.action = "destroy"
        /\ ( /\ last'.op = "delete_event"
             /\ \/ last'.id = Answer(FALSE, 0)
                \/ (project # "None" /\ modified /\ last'.id = -6) ) =>
               UNCHANGED fileVars
      ]_vars

\* C13's case: the save started by closing failed once, the window stayed;
\* the user closed again and the window went after the second save.
C13_Witness ==
    /\ window_destroyed
    /\ last = [op |-> "on_file_saved", id |-> 0, outcome |-> "destroyed"]
    /\ ~modified
    /\ error_dialogs = <<"Error saving the ROM">>

C24_AfterSaveActionRunsOnce ==
    /\ [](in_flight.kind = "save" => after_save_action = in_flight.action)
    /\ [][ /\ last'.op = "on_file_saved" =>
                  /\ in_flight.kind = "save"
                  /\ after_save_action' = "None"
                  /\ (window_destroyed' /\ ~window_destroyed) => in_flight.action = "destroy"
                  /\ in_flight'.kind = "open" => in_flight'.fn = in_flight.action
                  /\ in_flight.action = "None" =>
                         (~window_destroyed' /\ in_flight'.kind # "open")
           /\ last'.op = "on_file_saved_error" =>
                  (~window_destroyed' /\ in_flight'.kind # "open")
           /\ (in_flight.kind = "save" /\ in_flight'.kind = "open") =>
                  last'.op = "on_file_saved"
         ]_vars

\* C24's case: the save that closing the window started failed and left its
\* action behind; the save button's save succeeded later and ran nothing.
C24_Witness ==
    /\ last = [op |-> "on_file_saved", id |-> 0, outcome |-> "saved"]
    /\ error_dialogs = <<"Error saving the ROM">>
    /\ ~window_destroyed
    /\ after_save_action = "None"
    /\ in_flight = NoOperation
    /\ ~modified /\ ~tree_marked_modified

(***************************************************************************)
(* SpecRecent: the settings hold any list of recent files, duplicates      *)
(* included; files are opened and saved under new names.                   *)
(***************************************************************************)
RecentNames == {"a.nds", "b.nds", "c.nds"}

\* The lists settings.get_recent_files() can return.
StoredLists == UNION {[1..n -> RecentNames] : n \in 0..MaxRecent}

InitRecent ==
    /\ \E rf \in StoredLists : FileIdle("None", FALSE, TRUE, rf)
    /\ ViewIdle
    /\ FilterIdle
    /\ InterIdle
    /\ GeomIdle
    /\ SpriteIdle
    /\ UpdateIdle
    /\ last = NoHandler

NextRecent ==
    \/ \E fn \in Files : OpenFile(fn, TRUE, 0)
    \/ OnFileOpened("none")
    \/ OnFileOpenedError
    \/ \E fn \in SaveAsNames, accepted \in BOOLEAN : OnSaveAsButtonClicked(fn, accepted)
    \/ OnFileSaved(TRUE)
    \/ OnFileSavedError
    \/ SaveAsReturns

SpecRecent == InitRecent /\ [][NextRecent]_vars

\* The members of a sequence, and the place where x comes first in it.
Members(seq) == {seq[i] : i \in 1..Len(seq)}
FirstIndex(seq, x) == CHOOSE i \in 1..Len(seq) : seq[i] = x /\ \A j \in 1..(i - 1) : seq[j] # x

\* C15: the settings always hold the in-memory list; and when
\* _update_recent_files(fn) has run (a file open started, Save As went on
\* after its save), fn is first in the list, no name is in it twice, it has
\* the old names and fn, and the names other than fn stand in the order of
\* their first places in the old list.
C15_RecentFilesUpdated ==
    /\ [](settings_recent_files = recent_files)
    /\ [][ ( \/ (in_flight'.kind = "open" /\ in_flight.kind # "open")
             \/ last'.op = "save_as_returns"
             \/ recent_files' # recent_files ) =>
           LET fn == IF in_flight.kind = "returned" THEN in_flight.then ELSE in_flight'.fn
               new == recent_files'
           IN  /\ Len(new) >= 1
               /\ new[1] = fn
               /\ \A i, j \in 1..Len(new) : i # j => new[i] # new[j]
               /\ Members(new) = Members(recent_files) \cup {fn}
               /\ \A i, j \in 2..Len(new) :
                      i < j => FirstIndex(recent_files, new[i]) < FirstIndex(recent_files, new[j])
               /\ settings_recent_files' = new
         ]_vars

\* C15's case: a list stored with a name twice, after an open and a Save As.
C15_Witness ==
    /\ last.op = "save_as_returns"
    /\ recent_files = <<"b.nds", "a.nds", "c.nds">>
    /\ settings_recent_files = recent_files
    /\ project = "b.nds"

(***************************************************************************)
(* SpecGeom: the window is moved, resized, maximized and restored; the     *)
(* timeouts fire.  SpecGeomFair adds that GLib's main loop fires a pending *)
(* timeout.                                                                *)
(***************************************************************************)
InitGeom ==
    /\ GeomIdle
    /\ ViewIdle
    /\ FilterIdle
    /\ FileIdle("None", FALSE, TRUE, <<>>)
    /\ InterIdle
    /\ SpriteIdle
    /\ UpdateIdle
    /\ last = NoHandler

TimeoutFires == \E id \in glib_timeouts : OnMainWindowConfigureEventHandle(id)

NextGeom ==
    \/ \E w \in WindowsAfter(window) : OnMainWindowConfigureEvent(w)
    \/ TimeoutFires

SpecGeom == InitGeom /\ [][NextGeom]_vars

SpecGeomFair == SpecGeom /\ WF_vars(TimeoutFires)

\* The settings hold what the handler stores for the window as it is.
GeometryStored == settings_window = StoredGeometry(window, settings_window)

\* C14: at most one resize timeout is pending and _resize_timeout_id names
\* it (or is None when there is none); a configure event cancels the pending
\* timeout, schedules a new one and writes nothing; the handler writes once
\* and leaves no timeout pending; a pending timeout leads to the write of
\* the geometry of the last event.
C14_GeometrySavedOncePerBurst ==
    /\ [](/\ Cardinality(glib_timeouts) <= 1
          /\ resize_timeout_id = 0 => glib_timeouts = {}
          /\ resize_timeout_id # 0 => glib_timeouts = {resize_timeout_id})
    /\ [][ /\ last'.op = "configure_event" =>
                  /\ resize_timeout_id' \notin glib_timeouts
                  /\ glib_timeouts' = {resize_timeout_id'}
                  /\ UNCHANGED <<settings_window, geometry_writes>>
           /\ last'.op = "configure_event_handle" =>
                  /\ glib_timeouts # {}
                  /\ geometry_writes' = geometry_writes + 1
                  /\ glib_timeouts' = {}
                  /\ resize_timeout_id' = 0
         ]_vars
    /\ (resize_timeout_id # 0) ~> (resize_timeout_id = 0 /\ GeometryStored)

\* C14's case: a burst of three configure events, then one write.
C14_Witness ==
    /\ last.op = "configure_event_handle"
    /\ source_count = 3
    /\ geometry_writes = 1
    /\ resize_timeout_id = 0 /\ glib_timeouts = {}
    /\ settings_window.position = "p2" /\ settings_window.size = "large"

(***************************************************************************)
(* SpecSprite: a sprite view is built, drawn, stopped and taken away while *)
(* its timeout ticks and the window's focus comes and goes.                *)
(***************************************************************************)
InitSprite ==
    /\ SpriteIdle
    /\ window_has_focus \in BOOLEAN
    /\ ViewIdle
    /\ FilterIdle
    /\ FileIdle("a.nds", FALSE, TRUE, <<>>)
    /\ InterIdle
    /\ GeomIdle
    /\ UpdateIdle
    /\ last = NoHandler

NextSprite ==
    \/ \E valid_item \in BOOLEAN : GetView(valid_item)
    \/ StopSpriteDrawing
    \/ Tick
    \/ DrawAreaLosesParent
    \/ FocusChanges
    \/ OnDrawSpriteDraw

SpecSprite == InitSprite /\ [][NextSprite]_vars

\* C16: a tick re-arms the timeout exactly when the draw area exists, has
\* a parent and _drawing_is_active is true; after stop_sprite_drawing or the
\* loss of the parent the next tick ends the timeout and none is left, and no
\* timeout comes back; a tick queues a redraw only when the main window has
\* the focus.
C16_TimerRunsWhileDrawing ==
    [][ /\ last'.op = "tick" =>
               /\ (tick_timers' = tick_timers) <=>
                      (draw_area = "attached" /\ drawing_is_active)
               /\ ~(draw_area = "attached" /\ drawing_is_active) => tick_timers' = 0
               /\ last'.id = 1 => window_has_focus
               /\ ~window_has_focus => redraw_queued' = redraw_queued
        /\ (tick_timers = 0 /\ draw_area # "None") => tick_timers' = 0
      ]_vars

\* C16's case: the timeout ticked and was re-armed, drawing was stopped while
\* the window had no focus, and the next tick ended the timeout.
C16_Witness ==
    /\ last = [op |-> "tick", id |-> 0, outcome |-> "ended"]
    /\ draw_area = "attached" /\ ~drawing_is_active
    /\ tick_timers = 0
    /\ frame_counter = 2
    /\ ~window_has_focus

(***************************************************************************)
(* SpecInter: the editor was opened on a ROM whose dungeons have zero, one *)
(* or two interruptions; get_view selected the first dungeon before the    *)
(* signals were connected, so interrupt_store starts empty.                *)
(***************************************************************************)
InitialLists == { <<>>,
                  <<Entry(1, 0, 0, 0, 0, FALSE)>>,
                  <<Entry(0, 0, 0, 0, 0, FALSE), Entry(1, 0, 0, 0, 0, TRUE)>> }

InitInter ==
    /\ list_dungeons \in [1..NumDungeons -> {l \in InitialLists : Len(l) <= MaxEntries}]
    /\ interrupt_store = <<>>
    /\ cb_dungeon = 1
    /\ interrupts_modified = FALSE
    /\ interrupt_edits = 0
    /\ overflow_dialog_shown = FALSE
    /\ ViewIdle
    /\ FilterIdle
    /\ FileIdle("a.nds", FALSE, TRUE, <<>>)
    /\ GeomIdle
    /\ SpriteIdle
    /\ UpdateIdle
    /\ last = NoHandler

NextInter ==
    \/ \E d \in 1..NumDungeons : OnCbDungeonChanged(d)
    \/ OnBtnAddClicked
    \/ \E sel \in SUBSET (1..Len(interrupt_store)) : OnBtnRemoveClicked(sel)
    \/ \E path \in 1..Len(interrupt_store), text \in CellTexts : OnTextFloorEdited(path, text)

SpecInter == InitInter /\ [][NextInter]_vars

\* C10: no dungeon's interruption list holds two entries with the same
\* floor ("Only one interruption is allowed per floor").
C10_OneInterruptionPerFloor ==
    \A d \in 1..NumDungeons :
        \A i, j \in 1..Len(list_dungeons[d]) :
            i # j => list_dungeons[d][i].floor # list_dungeons[d][j].floor

(***************************************************************************)
(* SpecInterEdit: the editor was opened on a ROM whose first dungeon has   *)
(* two interruptions and whose second has one; every handler of the table  *)
(* runs.                                                                   *)
(***************************************************************************)
RomLists(d) ==
    CASE d = 1 -> <<Entry(0, 0, 0, 0, 0, FALSE), Entry(1, 0, 0, 0, 0, TRUE)>>
      [] d = 2 -> <<Entry(1, 1, 1, 0, 1, FALSE)>>
      [] OTHER -> <<>>

InitInterEdit ==
    /\ list_dungeons = [d \in 1..NumDungeons |-> RomLists(d)]
    /\ interrupt_store = <<>>
    /\ cb_dungeon = 1
    /\ interrupts_modified = FALSE
    /\ interrupt_edits = 0
    /\ overflow_dialog_shown = FALSE
    /\ ViewIdle
    /\ FilterIdle
    /\ FileIdle("a.nds", FALSE, TRUE, <<>>)
    /\ GeomIdle
    /\ SpriteIdle
    /\ UpdateIdle
    /\ last = NoHandler

NextInterEdit ==
    \/ \E d \in 1..NumDungeons : OnCbDungeonChanged(d)
    \/ OnBtnAddClicked
    \/ \E sel \in SUBSET (1..Len(interrupt_store)) : OnBtnRemoveClicked(sel)
    \/ \E path \in 1..Len(interrupt_store), text \in CellTexts : OnTextFloorEdited(path, text)
    \/ \E path \in 1..Len(interrupt_store), text \in CellTexts : OnTextParam1Edited(path, text)
    \/ \E path \in 1..Len(interrupt_store), text \in CellTexts : OnTextParam2Edited(path, text)
    \/ \E path \in 1..Len(interrupt_store), type_id \in {0, 1} :
           OnComboTypeChanged(path, type_id)
    \/ \E path \in 1..Len(interrupt_store), var_id \in {0, 1} :
           OnComboGameVarChanged(path, var_id)
    \/ \E path \in 1..Len(interrupt_store) : OnContinueMusicToggled(path)

SpecInterEdit == InitInterEdit /\ [][NextInterEdit]_vars

\* The dungeon the combo box names: the first one when no row is active.
SelectedDungeon == IF cb_dungeon = 0 THEN 1 ELSE cb_dungeon

\* The handlers that write to interrupt_store, and the cell edits among them.
WritingHandlers == {"btn_add", "btn_remove", "floor_edited", "param1_edited",
                    "param2_edited", "combo_type_changed", "combo_game_var_changed",
                    "continue_music_toggled"}
CellEditHandlers == {"floor_edited", "param1_edited", "param2_edited"}

\* C17: after an add, a remove, a cell edit, a combo change or a toggle
\* that ran to its end, the selected dungeon's list has one entry per row of
\* interrupt_store, in row order, with the row's columns 0, 1, 2, 3, 4 and 7,
\* and the module is marked as modified.
C17_ListFollowsStore ==
    [][ (last'.op \in WritingHandlers /\ last'.outcome = "built") =>
            /\ Len(list_dungeons'[SelectedDungeon']) = Len(interrupt_store')
            /\ \A i \in 1..Len(interrupt_store') :
                   LET e == list_dungeons'[SelectedDungeon'][i]
                       v == interrupt_store'[i]
                   IN  /\ e.floor = v.c0
                       /\ e.ent_type = v.c1
                       /\ e.game_var_id = v.c2
                       /\ e.param1 = v.c3
                       /\ e.param2 = v.c4
                       /\ e.continue_music = v.c7
            /\ interrupts_modified'
      ]_vars

\* C17's case: the second dungeon was loaded, its param1 edited and its
\* continue-music flag toggled.
C17_Witness ==
    /\ last = [op |-> "continue_music_toggled", id |-> 1, outcome |-> "built"]
    /\ cb_dungeon = 2
    /\ interrupt_store = <<StoreRow(1, 1, 1, 1, 1, TRUE)>>
    /\ list_dungeons[2] = <<Entry(1, 1, 1, 1, 1, TRUE)>>
    /\ interrupts_modified

\* C18 as the specification states it: a cell edit that enters a number
\* out of range, with every row in range before, shows the error and leaves
\* every dungeon's list and the modified mark as they were.
C18_OverflowEditChangesNothing ==
    [][ ( /\ last'.op \in CellEditHandlers
          /\ last'.outcome = "overflow"
          /\ \A i \in 1..Len(interrupt_store) : RowInRange(interrupt_store[i]) ) =>
            /\ overflow_dialog_shown'
            /\ list_dungeons' = list_dungeons
            /\ interrupts_modified' = interrupts_modified
      ]_vars

\* C19: a cell edit whose text is not an integer changes neither the store
\* nor any dungeon's list nor the modified mark, and shows no error.
C19_NonIntegerEditIsNoOp ==
    [][ (last'.op \in CellEditHandlers /\ last'.outcome = "not_a_number") =>
            /\ interrupt_store' = interrupt_store
            /\ list_dungeons' = list_dungeons
            /\ interrupts_modified' = interrupts_modified
            /\ ~overflow_dialog_shown'
      ]_vars

\* C19's case: letters typed into param1 of the second row of the first
\* dungeon, which no handler has written yet.
C19_Witness ==
    /\ last = [op |-> "param1_edited", id |-> 2, outcome |-> "not_a_number"]
    /\ cb_dungeon = 1
    /\ Len(interrupt_store) = 2
    /\ list_dungeons[1] = RomLists(1)
    /\ ~interrupts_modified

\* C20: a handler that writes to the store leaves the list of every dungeon
\* other than the selected one as it was; on_cb_dungeon_changed loads the
\* store with the rows of the dungeon picked, changes no dungeon's list and
\* does not mark the module as modified.
C20_OnlySelectedDungeonChanges ==
    [][ /\ last'.op \in WritingHandlers =>
               \A d \in 1..NumDungeons :
                   d # SelectedDungeon => list_dungeons'[d] = list_dungeons[d]
        /\ last'.op = "cb_dungeon_changed" =>
               /\ list_dungeons' = list_dungeons
               /\ interrupts_modified' = interrupts_modified
               /\ Len(interrupt_store') = Len(list_dungeons[cb_dungeon'])
               /\ \A i \in 1..Len(interrupt_store') :
                      LET e == list_dungeons[cb_dungeon'][i]
                          v == interrupt_store'[i]
                      IN  /\ v.c0 = e.floor
                          /\ v.c1 = e.ent_type
                          /\ v.c2 = e.game_var_id
                          /\ v.c3 = e.param1
                          /\ v.c4 = e.param2
                          /\ v.c7 = e.continue_music
      ]_vars

\* C20's case: the second dungeon's floor was edited and the first dungeon
\* picked again: its list is the ROM's.
C20_Witness ==
    /\ last = [op |-> "cb_dungeon_changed", id |-> 1, outcome |-> "loaded"]
    /\ list_dungeons[2] = <<Entry(0, 1, 1, 0, 1, FALSE)>>
    /\ list_dungeons[1] = RomLists(1)
    /\ Len(interrupt_store) = 2
    /\ interrupts_modified

\* C21 as the specification states it: on_btn_remove_clicked takes the
\* selected entries (last.id of them) out of the selected dungeon's list and
\* keeps the others in their order; on_btn_add_clicked appends one entry of
\* zeros to the list.
C21_AddAppendsRemoveRemoves ==
    [][ /\ last'.op = "btn_add" =>
               list_dungeons'[SelectedDungeon] =
                   Append(list_dungeons[SelectedDungeon], Entry(0, 0, 0, 0, 0, FALSE))
        /\ last'.op = "btn_remove" =>
               /\ Len(list_dungeons'[SelectedDungeon]) =
                      Len(list_dungeons[SelectedDungeon]) - last'.id
               /\ \E sel \in SUBSET (1..Len(list_dungeons[SelectedDungeon])) :
                      /\ Cardinality(sel) = last'.id
                      /\ list_dungeons'[SelectedDungeon] =
                             WithoutRows(list_dungeons[SelectedDungeon], sel)
      ]_vars

(***************************************************************************)
(* SpecRoundTrip: one dungeon of the ROM has any list of up to MaxEntries  *)
(* entries drawn from EntrySamples, the others have none; dungeons are     *)
(* picked and rows removed.  A remove with nothing selected is _build_list *)
(* on the store as it is.                                                  *)
(***************************************************************************)
EntrySamples == { Entry(0, 0, 0, 0, 0, FALSE),
                  Entry(255, 1, 65535, 255, 0, TRUE),
                  Entry(1, 1, 1, 0, 255, FALSE) }


InitRoundTrip ==
    /\ \E k \in 1..NumDungeons, l \in UNION {[1..n -> EntrySamples] : n \in 0..MaxEntries} :
           list_dungeons = [d \in 1..NumDungeons |-> IF d = k THEN l ELSE <<>>]
    /\ interrupt_store = <<>>
    /\ cb_dungeon = 1
    /\ interrupts_modified = FALSE
    /\ interrupt_edits = 0
    /\ overflow_dialog_shown = FALSE
    /\ ViewIdle
    /\ FilterIdle
    /\ FileIdle("a.nds", FALSE, TRUE, <<>>)
    /\ GeomIdle
    /\ SpriteIdle
    /\ UpdateIdle
    /\ last = NoHandler

NextRoundTrip ==
    \/ \E d \in 1..NumDungeons : OnCbDungeonChanged(d)
    \/ \E sel \in SUBSET (1..Len(interrupt_store)) : OnBtnRemoveClicked(sel)

SpecRoundTrip == InitRoundTrip /\ [][NextRoundTrip]_vars

NextImport ==
    \/ \E valid_item \in BOOLEAN : GetView(valid_item)
    \/ \E accepted \in BOOLEAN,
          fail_at \in {ImportSteps[i] : i \in 1..Len(ImportSteps)} \cup {"none"} :
           OnImportClicked(accepted, fail_at)

SpecImport == InitSprite /\ [][NextImport]_vars

\* C25 as the specification states it: an import in which a step raised
\* shows the error dialog and leaves the three sprites, the modified mark
\* and the view as they were; a cancelled folder dialog changes nothing.
C25_ImportIsAllOrNothing ==
    [][ /\ (last'.op = "import_clicked" /\ last'.outcome = "error") =>
               /\ Len(sprite_dialogs') > 0
               /\ sprite_dialogs'[Len(sprite_dialogs')] = "Error importing the spritesheet."
               /\ sprite_version' = sprite_version
               /\ item_marked_modified' = item_marked_modified
               /\ view_reloads' = view_reloads
        /\ (last'.op = "import_clicked" /\ last'.outcome = "cancelled") =>
               UNCHANGED <<sprite_version, item_marked_modified, view_reloads,
                           sprite_dialogs>>
      ]_vars

\* C26: on_main_window_configure_event__handle stores the window's
\* position and maximized flag, and its size exactly when the window is not
\* maximized; nothing else writes the stored size, which is therefore never
\* the size of the maximized window.
C26_MaximizedSizeNotStored ==
    /\ [](settings_window.size \in Sizes)
    /\ [][ /\ last'.op = "configure_event_handle" =>
                  /\ settings_window'.position = window.position
                  /\ settings_window'.maximized = window.maximized
                  /\ ~window.maximized => settings_window'.size = window.size
                  /\ window.maximized => settings_window'.size = settings_window.size
           /\ settings_window'.size # settings_window.size =>
                  (last'.op = "configure_event_handle" /\ ~window.maximized)
         ]_vars

\* C26's case: the window was made large, that was stored, then it was
\* maximized and the handler ran again: the stored size is still "large".
C26_Witness ==
    /\ last.op = "configure_event_handle"
    /\ window.maximized /\ window.size = "screen"
    /\ settings_window = [position |-> "origin", size |-> "large", maximized |-> TRUE]
    /\ geometry_writes = 2

(***************************************************************************)
(* SpecUpdate: __init__ has built the window and reaches its call of       *)
(* _check_for_updates; the running version and what the check does vary.   *)
(***************************************************************************)
InitUpdate ==
    /\ ViewIdle
    /\ FilterIdle
    /\ FileIdle("None", FALSE, FALSE, <<>>)
    /\ InterIdle
    /\ GeomIdle
    /\ SpriteIdle
    /\ running_version \in Releases
    /\ newest_release = [kind |-> "none", release |-> << >>]
    /\ update_info_visible = TRUE
    /\ update_new_version = << >>
    /\ startup_step = "check_for_updates"
    /\ last = NoHandler

\* check_newest_release returns a version string, returns a string that is
\* no version (parse raises), or raises.
NextUpdate ==
    \E result \in [kind : {"version"}, release : Releases]
                     \cup {[kind |-> "invalid", release |-> << >>],
                           [kind |-> "raised", release |-> << >>]} :
        CheckForUpdates(result)

SpecUpdate == InitUpdate /\ [][NextUpdate]_vars

\* C27: after _check_for_updates the update box is shown exactly when the
\* newest release was retrieved and is strictly greater than the running
\* version, and then the label holds it; when the check raised or the
\* release is not newer the box is hidden; in every case __init__ goes on to
\* its next call, and nothing later shows or hides the box.
C27_UpdateBoxShownIffNewer ==
    [][ /\ last'.op = "check_for_updates" =>
               LET part(v, i) == IF i <= Len(v) THEN v[i] ELSE 0
                   base == MaxVersionPart + 1
                   value(v) == part(v, 1) * base * base + part(v, 2) * base + part(v, 3)
                   newer == /\ newest_release'.kind = "version"
                            /\ value(newest_release'.release) > value(running_version)
               IN  /\ update_info_visible' <=> newer
                   /\ newer => update_new_version' = newest_release'.release
                   /\ ~newer => update_new_version' = update_new_version
                   /\ startup_step' = "check_for_banner"
        /\ last'.op # "check_for_updates" =>
               UNCHANGED <<update_info_visible, update_new_version>>
      ]_vars

\* C27's case: the running version is 1.2, the newest release 2.0.0; the box
\* is shown with the label set, and __init__ goes on to the banner check.
C27_Witness ==
    /\ last.op = "check_for_updates"
    /\ startup_step = "check_for_banner"
    /\ running_version = <<1, 2>>
    /\ newest_release = [kind |-> "version", release |-> <<2, 0, 0>>]
    /\ update_info_visible
    /\ update_new_version = <<2, 0, 0>>

====
